---- MODULE Spec2Model ----
\* Request execution core of patisson_request (core.py, cache.py, depends.py):
\* the client SelfAsyncService as a state machine. Every coroutine is a frame on
\* the stack of its task; an action is the code between two suspension points.
\* Strings are sequences of atoms (a token, a header word, a path segment), so
\* that formatting, extraction and key concatenation are computed, not assumed.
EXTENDS Integers, Sequences, FiniteSets, TLC

VARIABLES access_token, refresh_token, self_headers, backend, cache, now, stack,
          outcome, log, call, calls

vars == <<access_token, refresh_token, self_headers, backend, cache, now, stack,
          outcome, log, call, calls>>

\* ---------------------------------------------------------------- bounds
\* operations issued on the cache directly in one behaviour
MaxOps == 3
\* top-level calls made on the client in one behaviour
MaxCalls == 2
\* the clock runs from 0 to MaxTime seconds
MaxTime == 2
\* iterations of the background token-refresh loop a behaviour follows
MaxRounds == 2
\* the client is constructed with default_max_reconnections = 2 (core.py:104
\* gives 3 when the constructor argument is omitted)
default_max_reconnections == 2

\* ------------------------------------------------------ program constants
default_timeout == 3
default_cache_lifetime == 60
default_use_auth_token == TRUE
default_use_cache == TRUE
default_use_graphql_cache == TRUE
default_header_auth_format == <<"Bearer", " ", "{}">>
default_host == <<"localhost">>
NULL == <<>>

\* Service (services.py): the members the model uses
_TEST == "_test"
AUTHENTICATION == "authentication"
BOOKS == "books"
USERS == "users"
Service == {_TEST, AUTHENTICATION, BOOKS, USERS}
self_service == _TEST
default_users_auth_service == USERS

\* TokenBearer (jwt_tokens.py)
TokenBearer_SERVICE == "SERVICE"
TokenBearer_CLIENT == "CLIENT"

\* ErrorCode (errors.py): an Enum whose values are strings
ErrorCode_BAD_CREDENTIALS == [type |-> "ErrorCode", v |-> "invalid credentials"]
ErrorCode_JWT_INVALID == [type |-> "ErrorCode", v |-> "invalid jwt"]
ErrorCode_JWT_EXPIRED == [type |-> "ErrorCode", v |-> "jwt has expired"]
\* an int as a Python object, to compare with objects of other types
PyInt(n) == [type |-> "int", v |-> ToString(n)]
\* Python's == between an int and an Enum member without int mixin: equal only
\* when both have the same type and value
PyEq(a, b) == a.type = b.type /\ a.v = b.v

\* Optional values: None, or a one-element tuple holding the value
None == <<>>
Some(x) == <<x>>

\* ---------------------------------------------------------------- strings
RECURSIVE StrFormat(_, _)
\* str.format with one "{}" field
StrFormat(fmt, s) ==
    IF fmt = <<>> THEN <<>>
    ELSE (IF Head(fmt) = "{}" THEN s ELSE <<Head(fmt)>>) \o StrFormat(Tail(fmt), s)

RECURSIVE StrRemove(_, _)
\* str.replace(sub, ''): every occurrence of sub removed, left to right
StrRemove(s, sub) ==
    IF sub = <<>> \/ Len(s) < Len(sub) THEN s
    ELSE IF SubSeq(s, 1, Len(sub)) = sub
         THEN StrRemove(SubSeq(s, Len(sub) + 1, Len(s)), sub)
         ELSE <<Head(s)>> \o StrRemove(Tail(s), sub)

RECURSIVE StrLStrip(_)
StrLStrip(s) == IF s # <<>> /\ Head(s) = " " THEN StrLStrip(Tail(s)) ELSE s

RECURSIVE StrRStrip(_)
StrRStrip(s) ==
    IF s # <<>> /\ s[Len(s)] = " " THEN StrRStrip(SubSeq(s, 1, Len(s) - 1)) ELSE s

\* str.strip()
StrStrip(s) == StrRStrip(StrLStrip(s))

\* extract_token_from_header: header.replace(header_format.replace('{}','').strip(), '')
extract_token_from_header(header, header_format) ==
    StrRemove(header, StrStrip(StrRemove(header_format, <<"{}">>)))

\* int(x) of a number given in halves (x = h/2): truncation toward zero
PyTrunc(h) == IF h >= 0 THEN h \div 2 ELSE -((-h) \div 2)

\* json text of small integers and back
IntRange == (-9..99) \cup {200, 401, 500}
IntToStr(n) == ToString(n)
StrToInt(s) == CHOOSE n \in IntRange : ToString(n) = s
BoolToStr(b) == IF b THEN "true" ELSE "false"

\* ---------------------------------------------------------------- headers
NoHeaders == <<>>
\* {**a, **b}
MergeHeaders(a, b) ==
    [k \in (DOMAIN a) \cup (DOMAIN b) |-> IF k \in DOMAIN b THEN b[k] ELSE a[k]]
\* headers[name] = value
SetHeader(h, name, value) ==
    [k \in (DOMAIN h) \cup {name} |-> IF k = name THEN value ELSE h[k]]
\* len(headers.values()) != len(set(headers.values()))
HasDuplicateValues(h) ==
    Cardinality(DOMAIN h) # Cardinality({h[k] : k \in DOMAIN h})
\* truth value of an Optional[HeadersType]: None and {} are both false
HeadersTruthy(oh) == oh # None /\ DOMAIN oh[1] # {}

\* get_url: protocol + host + '/' + service.value + '/' + path, in segments
get_url(service, path, host) ==
    (IF host = None THEN default_host ELSE host[1]) \o <<service>> \o path

\* ------------------------------------------------------------------ cache
\* RedisAsyncCache: the entries of the client's cache database, each with the
\* second at which Redis expires it
LiveEntries(c, t) == {e \in c : t < e.expire_at}

\* The cache server: "up", or down so that every command of the client raises
\* the named redis / pymemcache error. "empty" is the reference the failing
\* server is compared with: a server that answers and never holds an entry.
BackendErrors == {"ConnectionError", "TimeoutError"}
\* an except clause that names the connection error only
ExceptCatches_ConnectionOnly(exc) == exc = "ConnectionError"
\* `except Exception as e: self.logger.warning(e)`: the errors of the client
\* libraries are subclasses of Exception
ExceptCatches(exc) == exc \in BackendErrors
\* the exception that leaves cache.get or cache.set on server b, or None
CacheEscapesOn(b) == IF b \in BackendErrors /\ ~ExceptCatches(b) THEN Some(b) ELSE None
CacheEscapes == CacheEscapesOn(backend)

\* RedisAsyncCache.get: the bytes stored under key, or None; after a caught
\* exception the coroutine ends without a return statement: None
CacheGetOn(b, c, key) ==
    IF b = "up" /\ \E e \in c : e.key = key /\ now < e.expire_at
    THEN Some((CHOOSE e \in c : e.key = key /\ now < e.expire_at).value)
    ELSE None
CacheGet(key) == CacheGetOn(backend, cache, key)

\* ex=time if time else self.default_cache_lifetime
SetExpire(time) == IF time # None /\ time[1] # 0 THEN time[1] ELSE default_cache_lifetime

\* the first second the clock never reaches: an entry that lives until then or
\* longer is present at every lookup of the behaviour
Horizon == MaxTime + 1
ExpireAt(ex) == IF now + ex < Horizon THEN now + ex ELSE Horizon

\* RedisAsyncCache.set: SET key value EX ex; Redis refuses ex <= 0 ("invalid
\* expire time"), the exception is logged and nothing is stored
CacheSetOn(b, c, key, value, time) ==
    IF b # "up" \/ SetExpire(time) <= 0 THEN c
    ELSE {e \in c : e.key # key}
         \cup {[key |-> key, value |-> value, ex |-> SetExpire(time),
                expire_at |-> ExpireAt(SetExpire(time))]}
CacheSet(c, key, value, time) == CacheSetOn(backend, c, key, value, time)

\* bytes(False): the empty bytes object, the negative sentinel
bytes_False == <<>>
\* a lookup whose result is never taken as a hit
CacheTruthy_Never(cache_value) == FALSE
\* `if cache_value:` a value other than None and other than empty bytes
CacheTruthy(cache_value) == cache_value # None /\ cache_value[1] # <<>>
\* an identity test that no cached value passes
IsSentinel_Never(cache_value) == FALSE
\* `cache_value is bytes(False)`: CPython has one empty bytes object
IsSentinel(cache_value) == cache_value # None /\ cache_value[1] = bytes_False

\* ------------------------------------------------- payloads and responses
\* dict_to_bytes(payload.model_dump()): the payload as JSON text
PayloadToBytes(p) == <<"sub", p.sub, "exp", IntToStr(p.exp), "bearer", p.bearer>>
\* ServiceAccessTokenPayload(**bytes_to_dict(cache_value))
BytesToPayload(b) == [sub |-> b[2], exp |-> StrToInt(b[4]), bearer |-> b[6]]

\* the return values of the verify operations
Invalid == [ok |-> FALSE]
Valid(p) == [ok |-> TRUE, payload |-> p]
NoneValue == [none |-> TRUE]

\* an httpx response
HttpxResponse(status, headers, text) ==
    [status_code |-> status, headers |-> headers, text |-> text]
NoResponse == [status_code |-> 0, headers |-> NoHeaders, text |-> <<>>]

\* the JSON text of a verify answer and its fields (is_verify, payload)
VerifyText(v) ==
    IF v.ok THEN <<"true", v.payload.sub, IntToStr(v.payload.exp), v.payload.bearer>>
    ELSE <<"false">>
BodyIsVerify(body) == body.data[1] = "true"
BodyPayload(body) ==
    [sub |-> body.data[2], exp |-> StrToInt(body.data[3]), bearer |-> body.data[4]]
\* only the verify response types have a payload attribute
HasPayloadAttr(body) ==
    body.cls \in {"AuthenticationResponse.Verify", "VerifyUserResponse"}
\* only TokensSetResponse has the attributes access_token and refresh_token
HasTokenAttrs(body) == body.cls = "TokensSetResponse"
\* a client that stores the refresh token in both fields
BodyAccessToken_RefreshAgain(body) == <<body.data[2]>>
BodyAccessToken(body) == <<body.data[1]>>
\* a client that stores the access token in both fields
BodyRefreshToken_AccessAgain(body) == <<body.data[1]>>
BodyRefreshToken(body) == <<body.data[2]>>

\* Response classification (core.py 511-542)
Classify(r, response_type) ==
    IF r.status_code >= 500
    THEN [status_code |-> r.status_code, headers |-> r.headers, is_error |-> TRUE,
          body |-> [cls |-> "ErrorBodyResponse_5xx", data |-> r.text]]
    ELSE IF r.status_code >= 400
    THEN [status_code |-> r.status_code, headers |-> r.headers, is_error |-> TRUE,
          body |-> [cls |-> "ErrorBodyResponse_4xx", data |-> r.text]]
    ELSE [status_code |-> r.status_code, headers |-> r.headers, is_error |-> FALSE,
          body |-> [cls |-> response_type, data |-> r.text]]

\* dict_to_bytes(response.model_dump()): status, is_error, headers, body fields
ResponseToBytes(resp) ==
    <<IntToStr(resp.status_code), BoolToStr(resp.is_error),
      IntToStr(IF "Authorization" \in DOMAIN resp.headers
               THEN Len(resp.headers["Authorization"]) ELSE 0)>>
    \o (IF "Authorization" \in DOMAIN resp.headers
        THEN resp.headers["Authorization"] ELSE <<>>)
    \o resp.body.data
\* bytes_to_dict(cache_value): the fields of a Response, the body as a dict
BytesToResponse(b) ==
    LET n == StrToInt(b[3]) IN
    [status_code |-> StrToInt(b[1]), is_error |-> (b[2] = "true"),
     headers |-> IF n = 0 THEN NoHeaders
                 ELSE [k \in {"Authorization"} |-> SubSeq(b, 4, 3 + n)],
     body |-> [cls |-> "dict", data |-> SubSeq(b, 4 + n, Len(b))]]

\* Response(**value) with the body a dict: Response is not parametrized, so
\* pydantic validates the body against the bound of ResponseBodyTypeVar, the
\* union ResponseBodyAlias (service_responses.py 144-151). The body of a GET is
\* a health answer, the JSON object {status, error}; the text's second atom is
\* the error string, and without it error is null.
ResponseBodyAlias ==
    <<"ErrorBodyResponse_4xx", "ErrorBodyResponse_5xx", "HealthCheckBodyResponse",
      "GraphqlResponse", "RefreshTokenPayload", "TokensSetResponse",
      "SuccessResponse", "VerifyUserResponse", "AuthenticationResponse.Verify",
      "FileID">>
\* the number of fields of the class the object sets, or -1 if the class does
\* not validate it: a required field is missing or has the wrong type
FieldsSet(cls, data) ==
    CASE cls = "ErrorBodyResponse_5xx" -> IF Len(data) >= 2 THEN 1 ELSE -1
      [] cls = "HealthCheckBodyResponse" -> 2
      [] cls = "SuccessResponse" -> 0
      [] OTHER -> -1
Validating(data) ==
    {i \in DOMAIN ResponseBodyAlias : FieldsSet(ResponseBodyAlias[i], data) >= 0}
\* the member of the union the body becomes: the first that validates, from
\* left to right (pydantic 2.0 to 2.7), or the one that sets the most fields
\* (pydantic 2.8 and later); setup.py asks for any pydantic
FirstMatch(data) ==
    ResponseBodyAlias[CHOOSE i \in Validating(data) : \A j \in Validating(data) : i <= j]
BestMatch(data) ==
    ResponseBodyAlias[CHOOSE i \in Validating(data) :
        \A j \in Validating(data) :
            \/ FieldsSet(ResponseBodyAlias[i], data) > FieldsSet(ResponseBodyAlias[j], data)
            \/ /\ FieldsSet(ResponseBodyAlias[i], data) = FieldsSet(ResponseBodyAlias[j], data)
               /\ i <= j]
ValidatedAs(data) == {FirstMatch(data), BestMatch(data)}
\* Response(**self.bytes_to_dict(cache_value)): the responses it can give
CachedResponses(b) ==
    {[BytesToResponse(b) EXCEPT !.body.cls = cls] :
        cls \in ValidatedAs(BytesToResponse(b).body.data)}

\* ------------------------------------------------------------ environment
\* The Authentication service's token registry: the tokens it issued, with
\* their claims. Any other token string is rejected.
TokenExp == 1
IssuedTokens == {"tB", "tU", "cU"}
TokenClaims(a) ==
    IF a = "tB" THEN [sub |-> BOOKS, exp |-> TokenExp, bearer |-> TokenBearer_SERVICE]
    ELSE IF a = "tU"
    THEN [sub |-> USERS, exp |-> TokenExp, bearer |-> TokenBearer_SERVICE]
    ELSE [sub |-> "user1", exp |-> TokenExp, bearer |-> TokenBearer_CLIENT]
\* the token a string names, surrounding blanks ignored
TokenAtom(s) == IF StrStrip(s) = <<>> THEN "" ELSE StrStrip(s)[1]
\* the verify endpoint's answer at second t for a token string and a bearer
AuthVerify(s, bearer, t) ==
    IF /\ Len(StrStrip(s)) = 1
       /\ TokenAtom(s) \in IssuedTokens
       /\ TokenClaims(TokenAtom(s)).bearer = bearer
       /\ TokenClaims(TokenAtom(s)).exp > t
    THEN Valid(TokenClaims(TokenAtom(s)))
    ELSE Invalid

\* the token pairs Authentication hands out on login and on refresh
LoginPairs == {<<"A1", "R1">>}
RefreshPairs == {<<"A2", "R2">>}
\* the tokens a responding service may present in its Authorization header
ResponderTokens == {"tB", "tU", "tX"}
ResponderHeaders ==
    {NoHeaders} \cup
    {[k \in {"Authorization"} |-> StrFormat(default_header_auth_format, <<a>>)] :
        a \in ResponderTokens}

\* the answers a request can get from the remote service, by route
Responses(fr) ==
    IF fr.service = AUTHENTICATION
    THEN CASE fr.path = <<"create">> ->
                {HttpxResponse(200, NoHeaders, <<p[1], p[2]>>) : p \in LoginPairs}
                \cup {HttpxResponse(401, NoHeaders, <<ErrorCode_BAD_CREDENTIALS.v>>)}
           [] fr.path = <<"update">> ->
                {HttpxResponse(200, NoHeaders, <<p[1], p[2]>>) : p \in RefreshPairs}
                \cup {HttpxResponse(401, NoHeaders, <<ErrorCode_JWT_INVALID.v>>)}
           [] fr.path = <<"verify">> ->
                {HttpxResponse(200, NoHeaders,
                               VerifyText(AuthVerify(fr.body, TokenBearer_SERVICE, now))),
                 HttpxResponse(500, NoHeaders, <<"error">>)}
           [] fr.path = <<"status">> ->
                {HttpxResponse(st, h, <<"ok">>) :
                    st \in {200, 401, 500}, h \in ResponderHeaders}
           [] OTHER ->
                {HttpxResponse(200, NoHeaders, <<"ok">>),
                 HttpxResponse(401, NoHeaders, <<ErrorCode_JWT_EXPIRED.v>>),
                 HttpxResponse(500, NoHeaders, <<"error">>)}
    ELSE {HttpxResponse(200, h,
                        IF fr.path = <<"verify-user">>
                        THEN VerifyText(AuthVerify(fr.body, TokenBearer_CLIENT, now))
                        ELSE <<"ok">>) : h \in ResponderHeaders}
         \cup (IF fr.service = USERS /\ fr.path = <<"health">>
               THEN {HttpxResponse(200, h, <<"degraded", "db down">>) :
                        h \in ResponderHeaders}
               ELSE {})
         \cup {HttpxResponse(401, NoHeaders, <<ErrorCode_JWT_EXPIRED.v>>),
               HttpxResponse(500, NoHeaders, <<"error">>)}

\* ----------------------------------------------------------------- frames
\* A coroutine in progress: its name, where it stands, its arguments and locals.
Frame0 ==
    [proc |-> "", pc |-> "start", service |-> "", path |-> <<>>, host |-> None,
     url |-> <<>>, method |-> "", body |-> <<>>, response_type |-> "",
     add_headers |-> NoHeaders, headers |-> None, max_reconnections |-> None,
     timeout |-> None, use_auth_token |-> None, use_cache |-> None,
     cache_lifetime |-> None, is_graphql |-> FALSE, use_graphql_cache |-> None,
     cache_key |-> <<>>, i |-> 0, httpx_response |-> NoResponse,
     token |-> <<>>, for_service |-> None, ret |-> NoneValue]

\* the routes of service_routes.py the core calls: *-Route(...) unpacked into
\* post_request(service, path, response_type, post_data, is_graphql)
PostFrame(service, path, response_type, body) ==
    [Frame0 EXCEPT !.proc = "post_request", !.service = service, !.path = path,
                   !.response_type = response_type, !.body = body]
\* AuthenticationRoute.api.v1.service.jwt.create(login, password), use_auth_token=False
CreateRoute ==
    [PostFrame(AUTHENTICATION, <<"create">>, "TokensSetResponse", <<"login", "password">>)
        EXCEPT !.use_auth_token = Some(FALSE)]
\* AuthenticationRoute.api.v1.service.jwt.update(refresh_token)
UpdateRoute(refresh) ==
    PostFrame(AUTHENTICATION, <<"update">>, "TokensSetResponse", refresh)
\* AuthenticationRoute.api.v1.service.jwt.verify(token)
VerifyRoute(token) ==
    PostFrame(AUTHENTICATION, <<"verify">>, "AuthenticationResponse.Verify", token)
\* USERS_VERIFY_ROUTE[users_auth_service](token)
VerifyUserRoute(users_auth_service, token) ==
    PostFrame(users_auth_service, <<"verify-user">>, "VerifyUserResponse", token)

\* service_verify(service_access_token, service): service is Optional[Service]
ServiceVerifyFrame(token, service) ==
    [Frame0 EXCEPT !.proc = "service_verify", !.token = token, !.for_service = service]
ClientVerifyFrame(token) ==
    [Frame0 EXCEPT !.proc = "client_verify", !.token = token,
                   !.service = default_users_auth_service]
LoginFrame == [Frame0 EXCEPT !.proc = "get_tokens_by_login"]
GetTokensFrame == [Frame0 EXCEPT !.proc = "get_tokens"]
\* self._request(service=..., url=url, method=..., ...) as get_request and
\* post_request call it
RequestFrame(fr, url, method) ==
    [Frame0 EXCEPT !.proc = "_request", !.service = fr.service, !.path = fr.path,
                   !.url = url, !.method = method, !.body = fr.body,
                   !.response_type = fr.response_type,
                   !.add_headers = fr.add_headers, !.headers = fr.headers,
                   !.max_reconnections = fr.max_reconnections,
                   !.timeout = fr.timeout, !.use_auth_token = fr.use_auth_token]

\* ---------------------------------------------------------------- effects
\* What a step does to the stack of its task, to the task's outcome and to the log.
Pending == [k |-> "pending"]
Idle == [k |-> "idle"]
Returned(v) == [k |-> "return", v |-> v]
Raised(proc, exc) == [k |-> "raise", proc |-> proc, exc |-> exc]

\* the coroutine goes on (fr is its frame after the step)
EGoto(fr, rest, evs) == [st |-> <<fr>> \o rest, out |-> Pending, ev |-> evs]
\* the coroutine awaits another one
ECall(child, fr, rest, evs) == [st |-> <<child, fr>> \o rest, out |-> Pending, ev |-> evs]
\* return v: the awaiting coroutine gets v, or the task ends
EReturn(v, rest, evs) ==
    IF rest = <<>> THEN [st |-> <<>>, out |-> Returned(v), ev |-> evs]
    ELSE [st |-> <<[Head(rest) EXCEPT !.ret = v]>> \o Tail(rest), out |-> Pending,
          ev |-> evs]
\* raise: no coroutine of the core catches an exception of a coroutine it awaits
\* (the except clauses of _request name httpx.ConnectError, KeyError and
\* UnauthorizedServiceError, which no awaited coroutine lets out), so the task ends
ERaise(proc, exc, evs) ==
    [st |-> <<>>, out |-> Raised(proc, exc),
     ev |-> evs \o <<[e |-> "raise", proc |-> proc, exc |-> exc]>>]

\* an exception that leaves a cache operation is caught by no coroutine of the
\* core: the effect of a step that awaits the cache
Guarded(touches, eff) ==
    IF touches /\ CacheEscapes # None
    THEN ERaise("cache", CacheEscapes[1], <<>>)
    ELSE eff

\* the coroutines: one makes the calls of a sequential client, two share the
\* event loop of a concurrent one
TaskIds == {1, 2}
Tasks == {1}
\* the log is the history of one call at a time: it is kept while a single
\* coroutine runs, and left empty when several share the event loop
Logged == DOMAIN stack = Tasks
Apply(t, eff) ==
    /\ stack' = [stack EXCEPT ![t] = eff.st]
    /\ outcome' = [outcome EXCEPT ![t] = eff.out]
    /\ log' = IF Logged THEN log \o eff.ev ELSE log

Top(t) == stack[t][1]
Rest(t) == Tail(stack[t])
At(t, proc, pc) ==
    t \in DOMAIN stack /\ stack[t] # <<>> /\ Top(t).proc = proc /\ Top(t).pc = pc

\* log events
EvHttp(fr, res, status) ==
    [e |-> "http", service |-> fr.service, path |-> fr.path, method |-> fr.method,
     body |-> fr.body, headers |-> fr.headers[1], res |-> res,
     status_code |-> status, i |-> fr.i]
EvCacheGet(key, cache_value) == [e |-> "cache_get", key |-> key, got |-> cache_value]
\* the Executor is entered: get_request or post_request awaits _request
EvRequest(fr, method) ==
    [e |-> "request", service |-> fr.service, path |-> fr.path, method |-> method,
     body |-> fr.body]
EvCacheSet(key, value, time) ==
    [e |-> "cache_set", key |-> key, value |-> value, time |-> time, at |-> now]
EvReqEnd(fr, res, broke) ==
    [e |-> "req_end", service |-> fr.service, path |-> fr.path, res |-> res,
     attempts |-> fr.i + 1, max |-> fr.max_reconnections[1], broke |-> broke,
     status_code |-> fr.httpx_response.status_code,
     text |-> fr.httpx_response.text,
     headers |-> fr.httpx_response.headers, timeout |-> fr.timeout[1]]

\* --------------------------------------------------------------- _request
\* timeout = self.default_timeout if timeout is None else int(timeout); the
\* model counts a timeout in half seconds
ResolveTimeout(timeout) ==
    IF timeout = None THEN 2 * default_timeout ELSE 2 * PyTrunc(timeout[1])
\* max_reconnections = default if None else int(max_reconnections)
ResolveMaxReconnections(m) == IF m = None THEN default_max_reconnections ELSE m[1]
\* use_auth_token = default if None else bool(use_auth_token)
ResolveUseAuthToken(u) == IF u = None THEN default_use_auth_token ELSE u[1]

\* for i in range(max_reconnections): another iteration follows iteration i
\* a loop that gives up one attempt early
HasNextAttempt_OneShort(i, max) == i + 2 < max
HasNextAttempt(i, max) == i + 1 < max
\* if i + 1 == max_reconnections
BudgetSpent(i, max) == i + 1 = max
\* a client that takes every 401 for the JWT status
IsJwtStatus_Unauthorized(status_code) == status_code = 401
\* httpx_response.status_code == ErrorCode.JWT_EXPIRED or ... == ErrorCode.JWT_INVALID
IsJwtStatus(status_code) ==
    \/ PyEq(PyInt(status_code), ErrorCode_JWT_EXPIRED)
    \/ PyEq(PyInt(status_code), ErrorCode_JWT_INVALID)

\* {**self.headers, **add_headers} or {**self.headers}
MergedHeaders(fr) ==
    IF DOMAIN fr.add_headers # {} THEN MergeHeaders(self_headers, fr.add_headers)
    ELSE self_headers
\* headers['Authorization'] = header_auth_format.format(self.access_token)
WithAuthorization(h) ==
    SetHeader(h, "Authorization", StrFormat(default_header_auth_format, access_token))

\* the duplicate check, then the retry loop is entered
ReqCheckHeaders(fr, h, rest, evs) ==
    IF HasDuplicateValues(h) THEN ERaise("_request", "DuplicatHeadersError", evs)
    ELSE EGoto([fr EXCEPT !.pc = "attempt", !.headers = Some(h), !.i = 0], rest, evs)

\* return await self._request(..., headers=headers, ...) after get_tokens():
\* the frame of the replay waits below the frame of get_tokens
ReplayFrame(fr) ==
    [fr EXCEPT !.pc = "start", !.i = 0, !.httpx_response = NoResponse, !.ret = NoneValue]

\* after the loop (core.py 494-542): the budget check, the JWT statuses, the
\* classification; httpx_response is unbound when no attempt got a response
ReqAfterLoop(fr, rest, evs, broke) ==
    IF BudgetSpent(fr.i, fr.max_reconnections[1])
    THEN ERaise("_request", "ConnectionError",
                evs \o <<EvReqEnd(fr, "ConnectionError", broke)>>)
    ELSE IF fr.httpx_response = NoResponse
    THEN ERaise("_request", "UnboundLocalError", evs)
    ELSE IF IsJwtStatus(fr.httpx_response.status_code)
    THEN [st |-> <<GetTokensFrame, ReplayFrame(fr)>> \o rest, out |-> Pending,
          ev |-> evs \o <<EvReqEnd(fr, "replay", broke)>>]
    ELSE EReturn(Classify(fr.httpx_response, fr.response_type), rest,
                 evs \o <<EvReqEnd(fr, "Response", broke)>>)

\* an attempt ended in one of the three except clauses: next iteration, or the
\* loop is exhausted
ReqFail(fr, rest, evs, cause) ==
    LET evs1 == evs \o <<[e |-> "except", service |-> fr.service, path |-> fr.path,
                          cause |-> cause, i |-> fr.i]>>
    IN IF HasNextAttempt(fr.i, fr.max_reconnections[1])
       THEN EGoto([fr EXCEPT !.i = @ + 1, !.pc = "attempt"], rest, evs1)
       ELSE ReqAfterLoop(fr, rest, evs1, FALSE)

\* core.py 438-467: the guards and the headers
ReqStartEff(fr, rest) ==
    IF fr.service = self_service THEN ERaise("_request", "RuntimeError", <<>>)
    ELSE IF ResolveTimeout(fr.timeout) < 0 THEN ERaise("_request", "ValueError", <<>>)
    ELSE IF ResolveMaxReconnections(fr.max_reconnections) < 2
    THEN ERaise("_request", "ValueError", <<>>)
    ELSE LET fr1 == [fr EXCEPT
                 !.timeout = Some(ResolveTimeout(fr.timeout)),
                 !.max_reconnections = Some(ResolveMaxReconnections(fr.max_reconnections)),
                 !.use_auth_token = Some(ResolveUseAuthToken(fr.use_auth_token))]
         IN IF ~HeadersTruthy(fr.headers)
            THEN IF ResolveUseAuthToken(fr.use_auth_token)
                 THEN IF access_token = NULL
                      THEN ECall(LoginFrame,
                                 [fr1 EXCEPT !.pc = "auth_header",
                                             !.headers = Some(MergedHeaders(fr))],
                                 rest, <<>>)
                      ELSE ReqCheckHeaders(fr1, WithAuthorization(MergedHeaders(fr)),
                                           rest, <<>>)
                 ELSE ReqCheckHeaders(fr1, MergedHeaders(fr), rest, <<>>)
            ELSE ReqCheckHeaders(fr1, fr.headers[1], rest, <<>>)

ReqStart(t) ==
    /\ At(t, "_request", "start")
    /\ Apply(t, ReqStartEff(Top(t), Rest(t)))
    /\ UNCHANGED <<access_token, refresh_token, self_headers, backend, cache, now, call, calls>>

\* get_tokens_by_login() has returned: the Authorization header is built from
\* the access token the client holds now
ReqAuthHeader(t) ==
    /\ At(t, "_request", "auth_header")
    /\ Apply(t, ReqCheckHeaders(Top(t), WithAuthorization(Top(t).headers[1]), Rest(t), <<>>))
    /\ UNCHANGED <<access_token, refresh_token, self_headers, backend, cache, now, call, calls>>

\* client.request raises httpx.ConnectError
ReqConnectFail(t) ==
    /\ At(t, "_request", "attempt")
    /\ Apply(t, ReqFail(Top(t), Rest(t), <<EvHttp(Top(t), "ConnectError", 0)>>,
                        "ConnectError"))
    /\ UNCHANGED <<access_token, refresh_token, self_headers, backend, cache, now, call, calls>>

\* a client that exempts no service from the check of the responder's identity
SkipsIdentityCheck_Never(service) == FALSE
\* if service == Service.AUTHENTICATION: break
SkipsIdentityCheck(service) == service = AUTHENTICATION

\* client.request returns a response (core.py 472-483)
ReqResponseEff(fr, r, rest) ==
    LET fr1 == [fr EXCEPT !.httpx_response = r]
        evs == <<EvHttp(fr, "response", r.status_code)>>
    IN IF SkipsIdentityCheck(fr.service) THEN ReqAfterLoop(fr1, rest, evs, TRUE)
       ELSE IF ~(r.status_code >= 400)
       THEN IF "Authorization" \notin DOMAIN r.headers
            THEN ReqFail(fr1, rest, evs, "KeyError")
            ELSE ECall(ServiceVerifyFrame(
                           extract_token_from_header(r.headers["Authorization"],
                                                     default_header_auth_format),
                           Some(fr.service)),
                       [fr1 EXCEPT !.pc = "verified"], rest, evs)
       ELSE ReqAfterLoop(fr1, rest, evs, TRUE)

ReqResponse(t) ==
    /\ At(t, "_request", "attempt")
    /\ \E r \in Responses(Top(t)) : Apply(t, ReqResponseEff(Top(t), r, Rest(t)))
    /\ UNCHANGED <<access_token, refresh_token, self_headers, backend, cache, now, call, calls>>

\* service_verify has returned: `if not is_verify: raise UnauthorizedServiceError`
ReqVerified(t) ==
    /\ At(t, "_request", "verified")
    /\ Apply(t, IF ~Top(t).ret.ok
                THEN ReqFail(Top(t), Rest(t), <<>>, "UnauthorizedServiceError")
                ELSE ReqAfterLoop(Top(t), Rest(t), <<>>, TRUE))
    /\ UNCHANGED <<access_token, refresh_token, self_headers, backend, cache, now, call, calls>>

\* ------------------------------------------------- get_request, post_request
\* use_cache = self.default_use_cache if use_cache is None else bool(use_cache)
GetUseCache(fr) == IF fr.use_cache = None THEN default_use_cache ELSE fr.use_cache[1]
\* a cache switch that does not ask whether the POST is a GraphQL operation
PostUseCache_AnyPost(fr) ==
    (fr.use_graphql_cache # None /\ fr.use_graphql_cache[1]) \/ default_use_graphql_cache
\* use_cache = is_graphql and (use_graphql_cache or self.default_use_graphql_cache)
PostUseCache(fr) ==
    fr.is_graphql /\ ((fr.use_graphql_cache # None /\ fr.use_graphql_cache[1])
                      \/ default_use_graphql_cache)

\* a store that does not look at the response's is_error
ShouldStore_AnyResponse(use_cache, response) == use_cache
\* `if use_cache and not response.is_error:`
ShouldStore(use_cache, response) == use_cache /\ ~response.is_error

\* core.py 575-589: the cache is read, then the Executor is entered
GetStart(t) ==
    /\ At(t, "get_request", "start")
    /\ LET fr == Top(t)
           url == get_url(fr.service, fr.path, fr.host)
           cache_value == CacheGet(url)
           fr1 == [fr EXCEPT !.pc = "requested", !.url = url,
                             !.use_cache = Some(GetUseCache(fr))]
           hits == IF GetUseCache(fr) /\ CacheTruthy(cache_value)
                   THEN CachedResponses(cache_value[1]) ELSE {NoneValue}
       IN \E hit \in hits :
            Apply(t, Guarded(GetUseCache(fr),
                   IF GetUseCache(fr)
                   THEN IF CacheTruthy(cache_value)
                        THEN EReturn(hit, Rest(t), <<EvCacheGet(url, cache_value)>>)
                        ELSE ECall(RequestFrame(fr, url, "GET"), fr1, Rest(t),
                                   <<EvCacheGet(url, cache_value), EvRequest(fr, "GET")>>)
                   ELSE ECall(RequestFrame(fr, url, "GET"), fr1, Rest(t),
                              <<EvRequest(fr, "GET")>>)))
    /\ UNCHANGED <<access_token, refresh_token, self_headers, backend, cache, now, call, calls>>

\* core.py 591-596
GetRequested(t) ==
    /\ At(t, "get_request", "requested")
    /\ LET fr == Top(t)
           store == ShouldStore(fr.use_cache[1], fr.ret)
           value == ResponseToBytes(fr.ret)
       IN /\ cache' = IF store THEN CacheSet(cache, fr.url, value, fr.cache_lifetime)
                      ELSE cache
          /\ Apply(t, Guarded(store, EReturn(fr.ret, Rest(t),
                              IF store THEN <<EvCacheSet(fr.url, value, fr.cache_lifetime)>>
                              ELSE <<>>)))
    /\ UNCHANGED <<access_token, refresh_token, self_headers, backend, now, call, calls>>

\* a key that leaves the request body out
PostCacheKey_UrlOnly(url, body) == url
\* cache_key = str(url+str(post_data.json_))
PostCacheKey(url, body) == url \o body

\* core.py 632-652
PostStart(t) ==
    /\ At(t, "post_request", "start")
    /\ LET fr == Top(t)
           url == get_url(fr.service, fr.path, fr.host)
           cache_key == PostCacheKey(url, fr.body)
           cache_value == CacheGet(cache_key)
           fr1 == [fr EXCEPT !.pc = "requested", !.url = url, !.cache_key = cache_key,
                             !.use_cache = Some(PostUseCache(fr))]
       IN Apply(t, Guarded(PostUseCache(fr),
                   IF PostUseCache(fr)
                   THEN IF CacheTruthy(cache_value)
                        THEN EReturn([BytesToResponse(cache_value[1])
                                         EXCEPT !.body.cls = fr.response_type],
                                     Rest(t), <<EvCacheGet(cache_key, cache_value)>>)
                        ELSE ECall(RequestFrame(fr, url, "POST"), fr1, Rest(t),
                                   <<EvCacheGet(cache_key, cache_value),
                                     EvRequest(fr, "POST")>>)
                   ELSE ECall(RequestFrame(fr, url, "POST"), fr1, Rest(t),
                              <<EvRequest(fr, "POST")>>)))
    /\ UNCHANGED <<access_token, refresh_token, self_headers, backend, cache, now, call, calls>>

\* core.py 654-665
PostRequested(t) ==
    /\ At(t, "post_request", "requested")
    /\ LET fr == Top(t)
           store == ShouldStore(fr.use_cache[1], fr.ret)
           value == ResponseToBytes(fr.ret)
       IN /\ cache' = IF store THEN CacheSet(cache, fr.cache_key, value, fr.cache_lifetime)
                      ELSE cache
          /\ Apply(t, Guarded(store, EReturn(fr.ret, Rest(t),
                              IF store
                              THEN <<EvCacheSet(fr.cache_key, value, fr.cache_lifetime)>>
                              ELSE <<>>)))
    /\ UNCHANGED <<access_token, refresh_token, self_headers, backend, now, call, calls>>

\* ------------------------------------------------------------ token lifecycle
\* a login that does not look at the response's status
LoginFailed_Unchecked(response) == FALSE
\* `if response.is_error` in get_tokens_by_login
LoginFailed(response) == response.is_error
\* `if response.is_error` in get_tokens
RefreshFailed(response) == response.is_error

\* get_tokens_by_login: the login exchange is sent
LoginStart(t) ==
    /\ At(t, "get_tokens_by_login", "start")
    /\ Apply(t, ECall(CreateRoute, [Top(t) EXCEPT !.pc = "posted"], Rest(t),
                      <<[e |-> "login_start", access_token |-> access_token,
                         refresh_token |-> refresh_token]>>))
    /\ UNCHANGED <<access_token, refresh_token, self_headers, backend, cache, now, call, calls>>

\* core.py 241-246
LoginPosted(t) ==
    /\ At(t, "get_tokens_by_login", "posted")
    /\ LET response == Top(t).ret IN
       IF LoginFailed(response)
       THEN /\ Apply(t, ERaise("get_tokens_by_login", "ConnectionError", <<>>))
            /\ UNCHANGED <<access_token, refresh_token>>
       ELSE IF ~HasTokenAttrs(response.body)
       THEN /\ Apply(t, ERaise("get_tokens_by_login", "AttributeError", <<>>))
            /\ UNCHANGED <<access_token, refresh_token>>
       ELSE /\ access_token' = BodyAccessToken(response.body)
            /\ refresh_token' = BodyRefreshToken(response.body)
            /\ Apply(t, EReturn(NoneValue, Rest(t), <<[e |-> "tokens", by |-> "login"]>>))
    /\ UNCHANGED <<self_headers, backend, cache, now, call, calls>>

\* get_tokens: the refresh exchange is sent with the current refresh token
TokStart(t) ==
    /\ At(t, "get_tokens", "start")
    /\ Apply(t, ECall(UpdateRoute(refresh_token), [Top(t) EXCEPT !.pc = "posted"],
                      Rest(t), <<[e |-> "get_tokens"]>>))
    /\ UNCHANGED <<access_token, refresh_token, self_headers, backend, cache, now, call, calls>>

\* core.py 264-269; `return await self.get_tokens_by_login()` is a tail call
TokPosted(t) ==
    /\ At(t, "get_tokens", "posted")
    /\ LET response == Top(t).ret IN
       IF RefreshFailed(response)
       THEN /\ Apply(t, EGoto(LoginFrame, Rest(t), <<>>))
            /\ UNCHANGED <<access_token, refresh_token>>
       ELSE IF ~HasTokenAttrs(response.body)
       THEN /\ Apply(t, ERaise("get_tokens", "AttributeError", <<>>))
            /\ UNCHANGED <<access_token, refresh_token>>
       ELSE /\ access_token' = BodyAccessToken(response.body)
            /\ refresh_token' = BodyRefreshToken(response.body)
            /\ Apply(t, EReturn(NoneValue, Rest(t), <<[e |-> "tokens", by |-> "refresh"]>>))
    /\ UNCHANGED <<self_headers, backend, cache, now, call, calls>>

\* ---------------------------------------------------- tokens_update_task
\* activate_tokens_update_task: loop.create_task(self.tokens_update_task())
UpdateTaskFrame == [Frame0 EXCEPT !.proc = "tokens_update_task"]

\* while True: await self.get_tokens(); an exception of get_tokens is caught
\* nowhere and ends the task
LoopStart(t) ==
    /\ At(t, "tokens_update_task", "start")
    /\ Apply(t, ECall(GetTokensFrame, [Top(t) EXCEPT !.pc = "sleep"], Rest(t),
                      <<[e |-> "round", i |-> Top(t).i]>>))
    /\ UNCHANGED <<access_token, refresh_token, self_headers, backend, cache, now, call, calls>>

\* await asyncio.sleep(self.update_tokens_time) is over: the next iteration
LoopWake(t) ==
    /\ At(t, "tokens_update_task", "sleep")
    /\ Top(t).i + 1 < MaxRounds
    /\ Apply(t, EGoto([Top(t) EXCEPT !.pc = "start", !.i = @ + 1, !.ret = NoneValue],
                      Rest(t), <<>>))
    /\ UNCHANGED <<access_token, refresh_token, self_headers, backend, cache, now, call, calls>>

\* ------------------------------------------------------------ verification
\* a client that keys verification results by the token alone
VerifyKey_TokenOnly(token, bearer) == token
\* the cache key of a verification result: token + bearer marker
VerifyKey(token, bearer) == token \o <<bearer>>
\* payload.exp - int(time.time())
RemainingTtl(payload) == payload.exp - now

\* core.py 320-329 (service) and 367-376 (client): the three cache outcomes
VerifyStartEff(fr, key, route, rest) ==
    LET cache_value == CacheGet(key) IN
    Guarded(TRUE,
        IF CacheTruthy(cache_value)
        THEN EReturn(Valid(BytesToPayload(cache_value[1])), rest,
                     <<EvCacheGet(key, cache_value)>>)
        ELSE IF IsSentinel(cache_value)
        THEN EReturn(Invalid, rest, <<EvCacheGet(key, cache_value)>>)
        ELSE ECall(route, [fr EXCEPT !.pc = "posted"], rest,
                   <<EvCacheGet(key, cache_value)>>))

\* a client that keeps the sentinel of a verified token until the token expires
SentinelTime_UntilExp(body) ==
    IF BodyIsVerify(body) THEN Some(RemainingTtl(BodyPayload(body))) ELSE None
\* cache.set(key, bytes(False)): no time is passed for the negative sentinel
SentinelTime(body) == None

\* core.py 330-344 (service) and 377-387 (client): what is stored and returned
\* for the answer of the verify endpoint; check_sub is the service the token
\* must name, or None
VerifyPostedResult(fr, key, check_sub) ==
    LET body == fr.ret.body IN
    IF ~HasPayloadAttr(body)
    THEN [raise |-> TRUE, ret |-> Invalid, value |-> bytes_False, time |-> None]
    ELSE IF ~BodyIsVerify(body)
    THEN [raise |-> FALSE, ret |-> Invalid, value |-> bytes_False,
          time |-> SentinelTime(body)]
    ELSE IF check_sub # None /\ BodyPayload(body).sub # check_sub[1]
    THEN [raise |-> FALSE, ret |-> Invalid, value |-> bytes_False,
          time |-> SentinelTime(body)]
    ELSE [raise |-> FALSE, ret |-> Valid(BodyPayload(body)),
          value |-> PayloadToBytes(BodyPayload(body)),
          time |-> Some(RemainingTtl(BodyPayload(body)))]

VerifyPosted(t, proc, key, check_sub) ==
    LET r == VerifyPostedResult(Top(t), key, check_sub) IN
    IF r.raise
    THEN /\ Apply(t, ERaise(proc, "AttributeError", <<>>))
         /\ UNCHANGED cache
    ELSE /\ cache' = CacheSet(cache, key, r.value, r.time)
         /\ Apply(t, Guarded(TRUE, EReturn(r.ret, Rest(t),
                                           <<EvCacheSet(key, r.value, r.time)>>)))

SvStart(t) ==
    /\ At(t, "service_verify", "start")
    /\ Apply(t, VerifyStartEff(Top(t), VerifyKey(Top(t).token, TokenBearer_SERVICE),
                               VerifyRoute(Top(t).token), Rest(t)))
    /\ UNCHANGED <<access_token, refresh_token, self_headers, backend, cache, now, call, calls>>

SvPosted(t) ==
    /\ At(t, "service_verify", "posted")
    /\ VerifyPosted(t, "service_verify", VerifyKey(Top(t).token, TokenBearer_SERVICE),
                    Top(t).for_service)
    /\ UNCHANGED <<access_token, refresh_token, self_headers, backend, now, call, calls>>

CvStart(t) ==
    /\ At(t, "client_verify", "start")
    /\ Apply(t, VerifyStartEff(Top(t), VerifyKey(Top(t).token, TokenBearer_CLIENT),
                               VerifyUserRoute(Top(t).service, Top(t).token), Rest(t)))
    /\ UNCHANGED <<access_token, refresh_token, self_headers, backend, cache, now, call, calls>>

CvPosted(t) ==
    /\ At(t, "client_verify", "posted")
    /\ VerifyPosted(t, "client_verify", VerifyKey(Top(t).token, TokenBearer_CLIENT), None)
    /\ UNCHANGED <<access_token, refresh_token, self_headers, backend, now, call, calls>>

\* ------------------------------------------------------------------- clock
\* the suspension points at which a task waits for the network (an HTTP
\* exchange or a cache operation) or sleeps
IoPoints ==
    {<<"tokens_update_task", "sleep">>,
     <<"_request", "attempt">>, <<"get_request", "start">>, <<"get_request", "requested">>,
     <<"post_request", "start">>, <<"post_request", "requested">>,
     <<"service_verify", "start">>, <<"service_verify", "posted">>,
     <<"client_verify", "start">>, <<"client_verify", "posted">>}
Waiting(t) ==
    IF stack[t] = <<>> THEN TRUE ELSE <<Top(t).proc, Top(t).pc>> \in IoPoints
\* a second passes while every task is idle or waits for the network; Redis
\* drops the entries whose time is up
Tick ==
    /\ now < MaxTime
    /\ \A t \in DOMAIN stack : Waiting(t)
    /\ now' = now + 1
    /\ cache' = LiveEntries(cache, now + 1)
    /\ UNCHANGED <<access_token, refresh_token, self_headers, backend, stack, outcome, log,
                   call, calls>>

\* ------------------------------------------------------------------- calls
\* a task of the service calls an operation of the client
StartCall(t, fr) ==
    /\ t \in DOMAIN stack
    /\ stack[t] = <<>>
    /\ calls < MaxCalls
    /\ stack' = [stack EXCEPT ![t] = <<fr>>]
    /\ outcome' = [outcome EXCEPT ![t] = Pending]
    /\ log' = IF Logged
              THEN <<[e |-> "call", access_token |-> access_token,
                      refresh_token |-> refresh_token]>>
              ELSE log
    /\ call' = fr
    /\ calls' = calls + 1
    /\ UNCHANGED <<access_token, refresh_token, self_headers, backend, cache, now>>

GetFrame(service, path, host, add_headers, use_cache, max, timeout, use_auth) ==
    [Frame0 EXCEPT !.proc = "get_request", !.service = service, !.path = path,
                   !.host = host, !.response_type = "HealthCheckBodyResponse",
                   !.add_headers = add_headers, !.use_cache = use_cache,
                   !.max_reconnections = max, !.timeout = timeout,
                   !.use_auth_token = use_auth]

\* the arguments the calls are made with
XA_XB == [k \in {"X-A", "X-B"} |-> <<"v">>]
XA == [k \in {"X-A"} |-> <<"v">>]
\* a default header the client may be constructed with
XD == [k \in {"X-D"} |-> <<"v">>]
\* a host that already carries a path segment
AuthHost == <<"localhost", AUTHENTICATION>>
GetCalls ==
    {GetFrame(s, <<"health">>, None, NoHeaders, None, m, None, None) :
        s \in Service, m \in {None, Some(1)}}
    \cup {GetFrame(s, <<"health">>, None, ah, None, None, to, ua) :
            s \in {AUTHENTICATION, BOOKS}, ah \in {NoHeaders, XA, XA_XB},
            to \in {None, Some(-2), Some(-1)}, ua \in {None, Some(FALSE)}}
    \cup {GetFrame(AUTHENTICATION, <<self_service, "health">>, None, NoHeaders, None,
                   None, None, None),
          GetFrame(self_service, <<"health">>, Some(AuthHost), NoHeaders, None,
                   None, None, None)}
PostCalls ==
    {[PostFrame(s, <<"graphql">>, "GraphqlResponse", <<"query">>)
        EXCEPT !.is_graphql = g, !.use_graphql_cache = ugc] :
            s \in {BOOKS}, g \in BOOLEAN, ugc \in {None, Some(FALSE)}}
VerifyTokens == {<<" ", "tB">>, <<" ", "tX">>}
ClientTokens == {<<"cU">>, <<"cX">>}

CallGetRequest(t) == \E fr \in GetCalls : StartCall(t, fr)
CallPostRequest(t) == \E fr \in PostCalls : StartCall(t, fr)
\* verify_service_token_dep(self_service, access_token): service_verify without a service
CallVerifyServiceTokenDep(t) ==
    \E tok \in VerifyTokens : StartCall(t, ServiceVerifyFrame(tok, None))
\* verify_client_token_dep(self_service, access_token)
CallVerifyClientTokenDep(t) ==
    \E tok \in ClientTokens : StartCall(t, ClientVerifyFrame(tok))
CallGetTokensByLogin(t) == StartCall(t, LoginFrame)
CallGetTokens(t) == StartCall(t, GetTokensFrame)

\* ------------------------------------------------------------ specification
\* the tasks a behaviour may run; Init says which of them exist
Init ==
    /\ access_token = NULL
    /\ refresh_token = NULL
    /\ self_headers \in {NoHeaders}
    /\ backend = "up"
    /\ cache = {}
    /\ now = 0
    /\ stack = [t \in Tasks |-> <<>>]
    /\ outcome = [t \in Tasks |-> Idle]
    /\ log = <<>>
    /\ call = Frame0
    /\ calls = 0

Step(t) ==
    \/ ReqStart(t) \/ ReqAuthHeader(t) \/ ReqConnectFail(t) \/ ReqResponse(t)
    \/ ReqVerified(t)
    \/ GetStart(t) \/ GetRequested(t) \/ PostStart(t) \/ PostRequested(t)
    \/ LoginStart(t) \/ LoginPosted(t) \/ TokStart(t) \/ TokPosted(t)
    \/ SvStart(t) \/ SvPosted(t) \/ CvStart(t) \/ CvPosted(t)

Next ==
    \/ \E t \in TaskIds :
        \/ CallGetRequest(t) \/ CallPostRequest(t)
        \/ CallVerifyServiceTokenDep(t) \/ CallVerifyClientTokenDep(t)
        \/ CallGetTokensByLogin(t) \/ CallGetTokens(t)
        \/ Step(t)
    \/ Tick

\* the client constructed with or without a default header
InitHeaders ==
    /\ access_token = NULL
    /\ refresh_token = NULL
    /\ self_headers \in {NoHeaders, XD}
    /\ backend = "up"
    /\ cache = {}
    /\ now = 0
    /\ stack = [t \in Tasks |-> <<>>]
    /\ outcome = [t \in Tasks |-> Idle]
    /\ log = <<>>
    /\ call = Frame0
    /\ calls = 0

Spec == InitHeaders /\ [][Next]_vars

\* ---- the retry loop on its own: requests whose attempts may all fail
RetryCalls ==
    {GetFrame(s, <<"health">>, None, NoHeaders, None, None, None, None) :
        s \in {AUTHENTICATION, BOOKS}}
    \cup {GetFrame(BOOKS, <<"health">>, None, NoHeaders, None, Some(3), None, None)}
CallRetry(t) == \E fr \in RetryCalls : StartCall(t, fr)
NextRetry ==
    \/ \E t \in TaskIds :
        \/ CallRetry(t)
        \/ ReqStart(t) \/ ReqAuthHeader(t) \/ ReqConnectFail(t) \/ ReqResponse(t)
        \/ ReqVerified(t)
        \/ GetStart(t) \/ GetRequested(t) \/ PostStart(t) \/ PostRequested(t)
        \/ LoginStart(t) \/ LoginPosted(t)
        \/ SvStart(t) \/ SvPosted(t)
    \/ Tick
SpecRetry == Init /\ [][NextRetry]_vars

\* ---- the verification operations on their own
ForServices == {None, Some(USERS)}
CallServiceVerify(t) ==
    \E tok \in VerifyTokens, sv \in ForServices : StartCall(t, ServiceVerifyFrame(tok, sv))
CallClientVerify(t) == \E tok \in ClientTokens : StartCall(t, ClientVerifyFrame(tok))
NextVerify ==
    \/ \E t \in TaskIds :
        \/ CallServiceVerify(t) \/ CallClientVerify(t)
        \/ ReqStart(t) \/ ReqAuthHeader(t) \/ ReqConnectFail(t) \/ ReqResponse(t)
        \/ ReqVerified(t)
        \/ PostStart(t) \/ PostRequested(t)
        \/ LoginStart(t) \/ LoginPosted(t)
        \/ SvStart(t) \/ SvPosted(t) \/ CvStart(t) \/ CvPosted(t)
    \/ Tick
SpecVerify == Init /\ [][NextVerify]_vars

\* ---- the token lifecycle on its own
CallLogin(t) == StartCall(t, LoginFrame)
CallRefresh(t) == StartCall(t, GetTokensFrame)
NextLogin ==
    \/ \E t \in TaskIds :
        \/ CallLogin(t) \/ CallRefresh(t)
        \/ ReqStart(t) \/ ReqAuthHeader(t) \/ ReqConnectFail(t) \/ ReqResponse(t)
        \/ PostStart(t) \/ PostRequested(t)
        \/ LoginStart(t) \/ LoginPosted(t) \/ TokStart(t) \/ TokPosted(t)
    \/ Tick
SpecLogin == Init /\ [][NextLogin]_vars

\* a GraphQL query posted to the books service, or the same body posted as a
\* plain POST
GraphqlBodies == {<<"books(ids:1)">>, <<"books(ids:2)">>}
GraphqlFrame(body, is_graphql, use_graphql_cache) ==
    [PostFrame(BOOKS, <<"graphql">>, "GraphqlResponse", body)
        EXCEPT !.is_graphql = is_graphql, !.use_graphql_cache = use_graphql_cache]

\* ---- the response cache of GET requests, with the cache flag given or left
\* to the client's default
CacheGetCalls ==
    {GetFrame(BOOKS, <<"health">>, None, NoHeaders, uc, None, None, None) :
        uc \in {None, Some(FALSE)}}
CallCachedGet(t) == \E fr \in CacheGetCalls : StartCall(t, fr)
NextCache ==
    \/ \E t \in TaskIds :
        \/ CallCachedGet(t)
        \/ ReqStart(t) \/ ReqAuthHeader(t) \/ ReqConnectFail(t) \/ ReqResponse(t)
        \/ ReqVerified(t)
        \/ GetStart(t) \/ GetRequested(t) \/ PostStart(t) \/ PostRequested(t)
        \/ LoginStart(t) \/ LoginPosted(t)
        \/ SvStart(t) \/ SvPosted(t)
    \/ Tick
SpecCache == Init /\ [][NextCache]_vars

\* ---- what the response cache comes to hold: a cached GET and a cached
\* GraphQL POST, answered by success and error responses
StoreGetCalls == {GetFrame(BOOKS, <<"health">>, None, NoHeaders, None, None, None, None)}
StorePostCalls == {GraphqlFrame(<<"books(ids:1)">>, TRUE, None)}
CallStoreGet(t) == \E fr \in StoreGetCalls : StartCall(t, fr)
CallStorePost(t) == \E fr \in StorePostCalls : StartCall(t, fr)
NextStore ==
    \/ \E t \in TaskIds :
        \/ CallStoreGet(t) \/ CallStorePost(t)
        \/ ReqStart(t) \/ ReqAuthHeader(t) \/ ReqConnectFail(t) \/ ReqResponse(t)
        \/ ReqVerified(t)
        \/ GetStart(t) \/ GetRequested(t) \/ PostStart(t) \/ PostRequested(t)
        \/ LoginStart(t) \/ LoginPosted(t)
        \/ SvStart(t) \/ SvPosted(t)
    \/ Tick
SpecStore == Init /\ [][NextStore]_vars

\* ---- GraphQL queries that differ in their body
GraphqlCalls == {GraphqlFrame(b, TRUE, None) : b \in GraphqlBodies}
CallGraphql(t) == \E fr \in GraphqlCalls : StartCall(t, fr)
NextGraphql ==
    \/ \E t \in TaskIds :
        \/ CallGraphql(t)
        \/ ReqStart(t) \/ ReqAuthHeader(t) \/ ReqConnectFail(t) \/ ReqResponse(t)
        \/ ReqVerified(t)
        \/ PostStart(t) \/ PostRequested(t)
        \/ LoginStart(t) \/ LoginPosted(t)
        \/ SvStart(t) \/ SvPosted(t)
    \/ Tick
SpecGraphql == Init /\ [][NextGraphql]_vars

\* ---- POST requests that are not GraphQL operations: a plain POST of the
\* query a GraphQL call sends, and the refresh exchange with the login and the
\* verification it brings about
PlainPostCalls ==
    {GraphqlFrame(<<"books(ids:1)">>, TRUE, None),
     GraphqlFrame(<<"books(ids:1)">>, FALSE, Some(TRUE))}
CallPlainPost(t) == \E fr \in PlainPostCalls : StartCall(t, fr)
NextPlain ==
    \/ \E t \in TaskIds :
        \/ CallPlainPost(t) \/ CallRefresh(t)
        \/ ReqStart(t) \/ ReqAuthHeader(t) \/ ReqConnectFail(t) \/ ReqResponse(t)
        \/ ReqVerified(t)
        \/ PostStart(t) \/ PostRequested(t)
        \/ LoginStart(t) \/ LoginPosted(t) \/ TokStart(t) \/ TokPosted(t)
        \/ SvStart(t) \/ SvPosted(t)
    \/ Tick
SpecPlain == Init /\ [][NextPlain]_vars

\* ---- the cache server down, or up and always empty: requests and
\* verifications that would read and write the cache. No entry exists whose
\* expiry the clock could bring about, and the clock stands still.
InitDown ==
    /\ access_token = NULL
    /\ refresh_token = NULL
    /\ self_headers = NoHeaders
    /\ backend \in BackendErrors \cup {"empty"}
    /\ cache = {}
    /\ now = 0
    /\ stack = [t \in Tasks |-> <<>>]
    /\ outcome = [t \in Tasks |-> Idle]
    /\ log = <<>>
    /\ call = Frame0
    /\ calls = 0
DownVerifyCalls ==
    {ServiceVerifyFrame(tok, None) : tok \in VerifyTokens}
    \cup {ClientVerifyFrame(tok) : tok \in ClientTokens}
CallDownVerify(t) == \E fr \in DownVerifyCalls : StartCall(t, fr)
NextDown ==
    \/ \E t \in TaskIds :
        \/ CallStoreGet(t) \/ CallStorePost(t) \/ CallDownVerify(t)
        \/ ReqStart(t) \/ ReqAuthHeader(t) \/ ReqConnectFail(t) \/ ReqResponse(t)
        \/ ReqVerified(t)
        \/ GetStart(t) \/ GetRequested(t) \/ PostStart(t) \/ PostRequested(t)
        \/ LoginStart(t) \/ LoginPosted(t)
        \/ SvStart(t) \/ SvPosted(t) \/ CvStart(t) \/ CvPosted(t)
SpecDown == InitDown /\ [][NextDown]_vars

\* ---- the cache on its own: set and get issued directly, with every kind of
\* lifetime, while the clock runs
PortKeys == {<<"k1">>, <<"k2">>}
PortValues == {<<"v1">>, <<"v2">>}
PortTtls == {-1, 0, 1, 2}
\* await cache.set(key, value, ttl)
PortSet ==
    /\ Len(log) < MaxOps
    /\ \E key \in PortKeys, value \in PortValues, ttl \in PortTtls :
          /\ cache' = CacheSet(cache, key, value, Some(ttl))
          /\ log' = log \o <<EvCacheSet(key, value, Some(ttl))>>
    /\ UNCHANGED <<access_token, refresh_token, self_headers, backend, now, stack,
                   outcome, call, calls>>
\* await cache.get(key)
PortGet ==
    /\ Len(log) < MaxOps
    /\ \E key \in PortKeys :
          log' = log \o <<[e |-> "port_get", key |-> key, got |-> CacheGet(key),
                           at |-> now]>>
    /\ UNCHANGED <<access_token, refresh_token, self_headers, backend, cache, now,
                   stack, outcome, call, calls>>
NextPort == PortSet \/ PortGet \/ Tick
SpecPort == Init /\ [][NextPort]_vars

\* ---- the background refresh loop, started on a new client or on one that
\* has logged in
CallActivate(t) == StartCall(t, UpdateTaskFrame)
NextLoop ==
    \/ \E t \in TaskIds :
        \/ CallLogin(t) \/ CallActivate(t)
        \/ LoopStart(t) \/ LoopWake(t)
        \/ ReqStart(t) \/ ReqAuthHeader(t) \/ ReqConnectFail(t) \/ ReqResponse(t)
        \/ PostStart(t) \/ PostRequested(t)
        \/ LoginStart(t) \/ LoginPosted(t) \/ TokStart(t) \/ TokPosted(t)
    \/ Tick
SpecLoop == Init /\ [][NextLoop]_vars

\* ================================================================ properties
TypeOK == calls \in 0..MaxCalls /\ now \in 0..MaxTime

\* every task is idle or has finished its call
AllDone == \A t \in DOMAIN stack : stack[t] = <<>>
\* the call in progress, or last made, is a request through the public API
IsRequestCall == call.proc \in {"get_request", "post_request"}
\* the indices of the log's events of one kind
Events(kind) == {k \in DOMAIN log : log[k].e = kind}
\* the tokens the client held when the call began
TokensAsAtCallStart ==
    log # <<>> /\ access_token = log[1].access_token
               /\ refresh_token = log[1].refresh_token

\* ---------------------------------------------------------------------- C1
\* the Authentication service would accept the token as a service token of S
ServiceTokenOf(token, S) ==
    /\ Len(StrStrip(token)) = 1
    /\ TokenAtom(token) \in IssuedTokens
    /\ TokenClaims(TokenAtom(token)).bearer = TokenBearer_SERVICE
    /\ TokenClaims(TokenAtom(token)).sub = S
\* _request ended by handing a non-error response of a service other than
\* Authentication to its caller
AcceptedFrom(k) ==
    /\ log[k].e = "req_end"
    /\ log[k].res = "Response"
    /\ log[k].service # AUTHENTICATION
    /\ log[k].status_code < 400
\* C1: whenever the client returns a non-error response obtained over HTTP from
\* a service S other than Authentication, the token in that response's
\* Authorization header is a genuine service token whose sub is S, whatever
\* verification calls populated the cache before.
C1_AcceptedTokenNamesResponder ==
    \A k \in DOMAIN log :
        AcceptedFrom(k) =>
            /\ "Authorization" \in DOMAIN log[k].headers
            /\ ServiceTokenOf(extract_token_from_header(log[k].headers["Authorization"],
                                                        default_header_auth_format),
                              log[k].service)

\* ---------------------------------------------------------------------- C2
\* C2: _request raises the fatal connection error only if every attempt failed:
\* when the loop was left by a successful exchange (the break), at any attempt
\* up to and including the last one, the call does not end in ConnectionError.
C2_SuccessfulAttemptNeverRaises ==
    \A k \in DOMAIN log :
        (log[k].e = "req_end" /\ log[k].broke) => log[k].res # "ConnectionError"

\* ---------------------------------------------------------------------- C3
\* the HTTP attempts made on the target of the call, and those of them that
\* ended in one of the three except clauses
AttemptsOnTarget ==
    {k \in Events("http") : log[k].service = call.service /\ log[k].path = call.path}
FailuresOnTarget ==
    {k \in Events("except") : log[k].service = call.service /\ log[k].path = call.path}
EveryAttemptFailed ==
    /\ AttemptsOnTarget # {}
    /\ Cardinality(FailuresOnTarget) = Cardinality(AttemptsOnTarget)
\* the fatal error's message names the service, the attempt count and the timeout
FatalMessageNamesCall ==
    \E k \in Events("req_end") :
        /\ log[k].res = "ConnectionError"
        /\ log[k].service = call.service
        /\ log[k].max = ResolveMaxReconnections(call.max_reconnections)
        /\ log[k].timeout = ResolveTimeout(call.timeout)
\* C3: against a target on which every attempt fails in a retryable way (no
\* connection, no Authorization header, a token that fails verification) the
\* client makes exactly max_reconnections HTTP attempts, never more, and then
\* raises ConnectionError naming the service, the attempt count and the timeout.
C3_ExhaustedBudgetRaises ==
    IsRequestCall =>
        /\ Cardinality(AttemptsOnTarget) <= ResolveMaxReconnections(call.max_reconnections)
        /\ (AllDone /\ EveryAttemptFailed) =>
              /\ Cardinality(AttemptsOnTarget)
                    = ResolveMaxReconnections(call.max_reconnections)
              /\ outcome[1] = Raised("_request", "ConnectionError")
              /\ FatalMessageNamesCall
\* a request to Books with three attempts, each failing in a different way
C3_Witness ==
    /\ AllDone
    /\ call.service = BOOKS
    /\ call.max_reconnections = Some(3)
    /\ EveryAttemptFailed
    /\ {log[k].cause : k \in FailuresOnTarget}
          = {"ConnectError", "KeyError", "UnauthorizedServiceError"}
    /\ outcome[1] = Raised("_request", "ConnectionError")

\* ---------------------------------------------------------------------- C4
\* the exchange that ended the loop answered 'jwt has expired' or 'invalid jwt'
CarriesJwtStatus(k) ==
    /\ log[k].e = "req_end"
    /\ log[k].broke
    /\ log[k].status_code >= 400
    /\ log[k].text \in {<<ErrorCode_JWT_EXPIRED.v>>, <<ErrorCode_JWT_INVALID.v>>}
\* C4: a response carrying the 'JWT expired' (or invalid) status makes the
\* client refresh its tokens and replay the request; it is not handed to the
\* caller as the answer of the call.
C4_JwtStatusIsReplayed ==
    \A k \in DOMAIN log :
        (CarriesJwtStatus(k) /\ log[k].res # "ConnectionError") => log[k].res = "replay"

\* ---------------------------------------------------------------------- C5
IsVerifyKey(key) ==
    key # <<>> /\ key[Len(key)] \in {TokenBearer_SERVICE, TokenBearer_CLIENT}
\* C5: a positive verification entry lives for exp - now, so at no time t >= exp
\* does a lookup return the cached payload, also when exp - now is 0 or negative
\* at the moment of the write.
C5_EntryGoneAtExpiry ==
    \A e \in cache :
        (IsVerifyKey(e.key) /\ e.value # bytes_False /\ now >= BytesToPayload(e.value).exp)
            => CacheGet(e.key) # Some(e.value)

\* ---------------------------------------------------------------------- C6
\* what a lookup found, read off the bytes it returned
RawHit(got) ==
    IF got = None THEN "absent" ELSE IF got[1] = <<>> THEN "sentinel" ELSE "value"
KeyToken(key) == SubSeq(key, 1, Len(key) - 1)
\* the event is the verify request for the token of the key: to Authentication
\* for a service token, to the users service for a client token
IsVerifyRequestFor(ev, key) ==
    /\ ev.e = "request"
    /\ ev.body = KeyToken(key)
    /\ IF key[Len(key)] = TokenBearer_SERVICE
       THEN ev.service = AUTHENTICATION /\ ev.path = <<"verify">>
       ELSE ev.service = default_users_auth_service /\ ev.path = <<"verify-user">>
IsVerifyRequest(ev) ==
    ev.e = "request" /\ ev.path \in {<<"verify">>, <<"verify-user">>}
IsVerifyLookup(k) == log[k].e = "cache_get" /\ IsVerifyKey(log[k].key)
IsVerifyCall == call.proc \in {"service_verify", "client_verify"}
\* C6: service_verify and client_verify tell three cache outcomes apart: a
\* populated value gives the decoded payload and a sentinel gives invalid, both
\* without a request; an absent key, and only an absent key, gives exactly one
\* verify request.
C6_ThreeCacheOutcomes ==
    /\ \A k \in DOMAIN log :
          IsVerifyLookup(k) =>
             /\ (RawHit(log[k].got) # "absent" /\ k < Len(log))
                   => ~IsVerifyRequest(log[k + 1])
             /\ (RawHit(log[k].got) = "absent" /\ k < Len(log))
                   => IsVerifyRequestFor(log[k + 1], log[k].key)
    /\ \A j \in DOMAIN log :
          IsVerifyRequest(log[j]) =>
             /\ j > 1
             /\ IsVerifyLookup(j - 1)
             /\ RawHit(log[j - 1].got) = "absent"
             /\ IsVerifyRequestFor(log[j], log[j - 1].key)
    /\ (IsVerifyCall /\ Len(log) >= 2 /\ RawHit(log[2].got) # "absent") =>
          /\ Len(log) = 2
          /\ outcome[1] = Returned(IF RawHit(log[2].got) = "sentinel" THEN Invalid
                                   ELSE Valid(BytesToPayload(log[2].got[1])))
\* service_verify answered from the sentinel a previous verification left
C6_Witness ==
    /\ call.proc = "service_verify"
    /\ Len(log) = 2
    /\ IsVerifyLookup(2)
    /\ RawHit(log[2].got) = "sentinel"
    /\ outcome[1] = Returned(Invalid)

\* ---------------------------------------------------------------------- C7
IsNetworkEvent(ev) == ev.e \in {"http", "cache_get", "cache_set"}
\* C7: a request whose target is the client's own service always raises, before
\* any network I/O (HTTP or cache), and leaves the client's tokens unchanged.
C7_SelfTargetRaisesBeforeIo ==
    (IsRequestCall /\ call.service = self_service) =>
        /\ \A k \in DOMAIN log : ~IsNetworkEvent(log[k])
        /\ TokensAsAtCallStart
        /\ AllDone => outcome[1] = Raised("_request", "RuntimeError")

\* ---------------------------------------------------------------------- C8
\* the arguments pass the guards that precede the header check
PassesGuards ==
    /\ call.service # self_service
    /\ ResolveTimeout(call.timeout) >= 0
    /\ ResolveMaxReconnections(call.max_reconnections) >= 2
\* C8: when the headers merged from the client's defaults and the call's
\* additions hold the same value twice, the call fails with the
\* duplicate-headers error before any HTTP request, whether or not the client
\* holds an access token and whatever the auth setting: once the Executor is
\* entered it ends in that error, and no login request and no request to the
\* target precedes it.
C8_DuplicateHeadersBeforeNetwork ==
    (IsRequestCall /\ PassesGuards /\ ~HeadersTruthy(call.headers)
                   /\ HasDuplicateValues(MergedHeaders(call))) =>
        /\ Events("http") = {}
        /\ (AllDone /\ Events("request") # {})
              => outcome[1] = Raised("_request", "DuplicatHeadersError")

\* ---------------------------------------------------------------------- C9
\* a timeout of a whole number of seconds below 0, or fewer than 2 attempts
InvalidArguments ==
    \/ call.timeout # None /\ call.timeout[1] <= -2
    \/ call.max_reconnections # None /\ call.max_reconnections[1] < 2
\* C9: get_request and post_request with a timeout below 0 or with
\* max_reconnections below 2 raise ValueError whatever the cache holds; they
\* never return a Response and make no HTTP request.
C9_InvalidArgumentsRaise ==
    (IsRequestCall /\ call.service # self_service /\ InvalidArguments) =>
        /\ Events("http") = {}
        /\ AllDone => outcome[1] = Raised("_request", "ValueError")

\* --------------------------------------------------------------------- C10
\* the login endpoint answered the exchange with an error status
LoginRefused(k) ==
    /\ log[k].e = "http"
    /\ log[k].path = <<"create">>
    /\ log[k].res = "response"
    /\ log[k].status_code >= 400
\* the tokens the client held when the login that sent exchange k began
TokensBeforeLogin(k) ==
    LET j == CHOOSE j \in 1..k :
                /\ log[j].e = "login_start"
                /\ \A m \in (j + 1)..k : log[m].e # "login_start"
    IN <<log[j].access_token, log[j].refresh_token>>
\* C10: when the login exchange returns an error response, get_tokens_by_login
\* ends in ConnectionError, no further request is sent, and access_token and
\* refresh_token are what they were before the call.
C10_RefusedLoginIsFatal ==
    \A k \in DOMAIN log :
        LoginRefused(k) =>
            /\ \A m \in (k + 1)..Len(log) : log[m].e # "http"
            /\ <<access_token, refresh_token>> = TokensBeforeLogin(k)
            /\ AllDone => (outcome[1].k = "raise" /\ outcome[1].exc = "ConnectionError")
\* a client that holds tokens logs in again, is refused, and keeps its tokens
C10_Witness ==
    /\ AllDone
    /\ \E k \in DOMAIN log : LoginRefused(k)
    /\ outcome[1] = Raised("get_tokens_by_login", "ConnectionError")
    /\ access_token # NULL

\* --------------------------------------------------------------------- C11
\* the first HTTP exchange of the call
IsFirstHttp(k) == k \in Events("http") /\ \A j \in Events("http") : j >= k
\* the refresh exchange was answered with an error status before event k
RefreshRefusedBefore(k) ==
    \E j \in Events("http") :
        /\ j < k
        /\ log[j].path = <<"update">>
        /\ log[j].res = "response"
        /\ log[j].status_code >= 400
\* C11: whether the client holds tokens or not, the first HTTP request of
\* get_tokens is the refresh exchange carrying the client's refresh token, and a
\* login request is sent only after that exchange returned an error response.
C11_RefreshPrecedesLogin ==
    call.proc = "get_tokens" =>
        \A k \in Events("http") :
            /\ IsFirstHttp(k) =>
                  (log[k].path = <<"update">> /\ log[k].body = log[1].refresh_token)
            /\ log[k].path = <<"create">> => RefreshRefusedBefore(k)

\* --------------------------------------------------------------------- C12
\* C12: once started, the background token-refresh loop never terminates: an
\* iteration in which get_tokens raises does not end the task; the task is
\* inside an iteration or asleep before the next one.
C12_LoopSurvivesErrors ==
    call.proc = "tokens_update_task" => \A t \in DOMAIN stack : stack[t] # <<>>

\* ---------------------------------------------------------------------- C13
\* get_request, with caching in force, found a live entry under its URL
GetFoundEntry ==
    /\ call.proc = "get_request"
    /\ GetUseCache(call)
    /\ Len(log) >= 2
    /\ log[2].e = "cache_get"
    /\ log[2].key = get_url(call.service, call.path, call.host)
    /\ log[2].got # None
\* C13: get_request with caching enabled and a live entry under the resolved
\* URL returns the decoded cached Response at once: the Executor is not
\* entered, no HTTP request is issued, the tokens stay as they were and no
\* verification of the responder takes place.
C13_CacheHitBypassesExecutor ==
    GetFoundEntry =>
        /\ Len(log) = 2
        /\ Events("request") = {} /\ Events("http") = {}
        /\ TokensAsAtCallStart
        /\ AllDone
        /\ outcome[1] \in {Returned(r) : r \in CachedResponses(log[2].got[1])}
\* a second GET of the books service's health route, answered from the entry
\* the first one stored
C13_Witness ==
    /\ GetFoundEntry
    /\ calls = 2
    /\ call.service = BOOKS
    /\ outcome[1].k = "return"
    /\ outcome[1].v.status_code = 200
    /\ ~outcome[1].v.is_error

\* ---------------------------------------------------------------------- C14
\* the key of a response entry: a URL, or a URL followed by a request body
IsResponseKey(key) == ~IsVerifyKey(key)
ResponseWrites == {k \in Events("cache_set") : IsResponseKey(log[k].key)}
\* the call ended in an exception or handed an error response to its caller
EndedInError ==
    /\ IsRequestCall
    /\ AllDone
    /\ outcome[1].k = "raise" \/ (outcome[1].k = "return" /\ outcome[1].v.is_error)
\* C14: the response cache holds non-error responses only. A URL or URL+body
\* entry is written only right after the Executor returned a response whose
\* is_error is false, every such entry decodes to a status code below 400, and
\* a call that raised or returned a 4xx/5xx response wrote no such entry.
C14_OnlySuccessesAreCached ==
    /\ \A e \in cache :
          IsResponseKey(e.key) =>
             /\ BytesToResponse(e.value).status_code < 400
             /\ ~BytesToResponse(e.value).is_error
    /\ \A k \in ResponseWrites :
          /\ k > 1
          /\ log[k - 1].e = "req_end"
          /\ log[k - 1].res = "Response"
          /\ log[k - 1].status_code < 400
          /\ BytesToResponse(log[k].value).status_code = log[k - 1].status_code
    /\ EndedInError => ResponseWrites = {}
\* the cache holds the GET's entry, and the GraphQL POST that followed got a
\* 5xx answer and wrote nothing
C14_Witness ==
    /\ \E e \in cache : e.key = get_url(BOOKS, <<"health">>, None)
    /\ call.proc = "post_request"
    /\ PostUseCache(call)
    /\ EndedInError
    /\ outcome[1].k = "return"
    /\ outcome[1].v.status_code >= 500
    /\ Events("http") # {}

\* ---------------------------------------------------------------------- C15
\* a GraphQL POST with caching in force looked its key up
IsCachedGraphqlCall ==
    /\ call.proc = "post_request"
    /\ PostUseCache(call)
    /\ Len(log) >= 2
\* the HTTP requests of the call that carry the call's own query
OwnHttp ==
    {k \in Events("http") : log[k].service = call.service /\ log[k].path = call.path
                            /\ log[k].method = "POST" /\ log[k].body = call.body}
\* C15: a GraphQL POST is cached under its URL and body. While the entry of
\* an identical earlier call is live the call returns the cached response and
\* issues no HTTP request; a call with another body looks up another key,
\* misses, enters the Executor and gets its response over HTTP.
C15_GraphqlCachedPerBody ==
    IsCachedGraphqlCall =>
        /\ log[2].e = "cache_get"
        /\ log[2].key = get_url(call.service, call.path, call.host) \o call.body
        /\ log[2].got # None =>
              /\ Len(log) = 2
              /\ Events("http") = {}
              /\ AllDone
              /\ outcome[1] = Returned([BytesToResponse(log[2].got[1])
                                           EXCEPT !.body.cls = call.response_type])
        /\ log[2].got = None =>
              /\ Len(log) >= 3
              /\ log[3].e = "request"
              /\ log[3].body = call.body
              /\ (AllDone /\ outcome[1].k = "return") => OwnHttp # {}
\* the same query a second time, answered from the cache
C15_Witness ==
    /\ IsCachedGraphqlCall
    /\ calls = 2
    /\ call.body = <<"books(ids:1)">>
    /\ log[2].got # None
    /\ outcome[1].k = "return"
    /\ outcome[1].v.body.cls = "GraphqlResponse"
\* the other query while the first one's entry is live: a miss and a request
C15_WitnessOtherBody ==
    /\ IsCachedGraphqlCall
    /\ calls = 2
    /\ call.body = <<"books(ids:2)">>
    /\ CacheGet(get_url(BOOKS, <<"graphql">>, None) \o <<"books(ids:1)">>) # None
    /\ log[2].got = None
    /\ AllDone
    /\ outcome[1].k = "return"
    /\ OwnHttp # {}

\* ---------------------------------------------------------------------- C16
\* the key is the one of the call itself, a GraphQL POST
IsOwnGraphqlKey(key) ==
    /\ call.proc = "post_request"
    /\ call.is_graphql
    /\ key = get_url(call.service, call.path, call.host) \o call.body
IsPlainPostCall == call.proc = "post_request" /\ ~call.is_graphql
\* the event after k, once there is one, is the Executor being entered for
\* the route
RequestFollows(k, path) ==
    k < Len(log) => /\ log[k + 1].e = "request"
                    /\ log[k + 1].method = "POST"
                    /\ log[k + 1].path = path
\* C16: a POST that is not flagged GraphQL neither reads nor writes the
\* response cache, whatever use_graphql_cache and its default are. The only
\* response-cache traffic of any call is under the key of a GraphQL call
\* itself, so the login, refresh and verify exchanges always enter the
\* Executor.
C16_PlainPostBypassesCache ==
    /\ \A k \in DOMAIN log :
          /\ (log[k].e \in {"cache_get", "cache_set"} /\ IsResponseKey(log[k].key))
                => IsOwnGraphqlKey(log[k].key)
          /\ log[k].e = "login_start" => RequestFollows(k, <<"create">>)
          /\ log[k].e = "get_tokens" => RequestFollows(k, <<"update">>)
          /\ (IsVerifyLookup(k) /\ RawHit(log[k].got) = "absent")
                => RequestFollows(k, <<"verify">>)
    /\ (IsPlainPostCall /\ Len(log) >= 2) =>
          /\ log[2].e = "request"
          /\ log[2].path = call.path
          /\ log[2].body = call.body
          /\ (AllDone /\ outcome[1].k = "return") => OwnHttp # {}
\* a plain POST, with use_graphql_cache set, of the query whose GraphQL
\* response is live in the cache under the same URL and body: it is answered
\* over HTTP
C16_Witness ==
    /\ IsPlainPostCall
    /\ call.use_graphql_cache = Some(TRUE)
    /\ calls = 2
    /\ CacheGet(get_url(call.service, call.path, call.host) \o call.body) # None
    /\ AllDone
    /\ outcome[1].k = "return"
    /\ ~outcome[1].v.is_error
    /\ OwnHttp # {}

\* ---------------------------------------------------------------------- C17
\* the call was made with its cache flag set to False
CacheSwitchedOff ==
    \/ call.proc = "get_request" /\ call.use_cache = Some(FALSE)
    \/ call.proc = "post_request" /\ call.use_graphql_cache = Some(FALSE)
\* C17: a call whose own cache flag is False (use_cache of get_request,
\* use_graphql_cache of post_request) neither reads nor writes the response
\* cache, whatever the client's default is, and enters the Executor at once.
C17_FalseFlagDisablesCache ==
    CacheSwitchedOff =>
        /\ \A k \in DOMAIN log :
              log[k].e \in {"cache_get", "cache_set"} => ~IsResponseKey(log[k].key)
        /\ Len(log) >= 2 => log[2].e = "request"

SetsBefore(k) == {j \in Events("cache_set") : j < k /\ log[j].key = log[k].key}
LatestSetBefore(k) == CHOOSE j \in SetsBefore(k) : \A i \in SetsBefore(k) : i <= j
\* C19: a get issued after set(key, value, ttl) and before the ttl has elapsed
\* returns the value of the latest set of the key; a get of a key that was
\* never set, or whose ttl has elapsed, returns None.
C19_GetReturnsLatestLiveSet ==
    \A k \in Events("port_get") :
        IF SetsBefore(k) = {} THEN log[k].got = None
        ELSE LET s == log[LatestSetBefore(k)] IN
             IF log[k].at < s.at + s.time[1]
             THEN log[k].got = Some(s.value)
             ELSE log[k].got = None

\* ---------------------------------------------------------------------- C20
\* C20: every Response that get_request or post_request returns, built from
\* an HTTP answer or read from the cache, has is_error = (status_code >= 400)
\* and a body whose class follows the status class: the 5xx error body iff the
\* status is 500 or above, the 4xx error body iff it is 400 to 499, and a
\* success body otherwise.
C20_BodyClassFollowsStatus ==
    (IsRequestCall /\ AllDone /\ outcome[1].k = "return") =>
        LET r == outcome[1].v IN
        /\ r.is_error = (r.status_code >= 400)
        /\ (r.body.cls = "ErrorBodyResponse_5xx") = (r.status_code >= 500)
        /\ (r.body.cls = "ErrorBodyResponse_4xx")
              = (r.status_code >= 400 /\ r.status_code < 500)

\* ---------------------------------------------------------------------- C21
\* ---- requests made with and without an explicit header map
ExplicitHeaders == {None, Some(NoHeaders), Some(XA)}
HeaderCalls ==
    {[GetFrame(BOOKS, <<"health">>, None, NoHeaders, None, None, None, ua)
        EXCEPT !.headers = h] : h \in ExplicitHeaders, ua \in {None, Some(FALSE)}}
CallWithHeaders(t) == \E fr \in HeaderCalls : StartCall(t, fr)
NextHeaders ==
    \/ \E t \in TaskIds :
        \/ CallWithHeaders(t)
        \/ ReqStart(t) \/ ReqAuthHeader(t) \/ ReqConnectFail(t) \/ ReqResponse(t)
        \/ ReqVerified(t)
        \/ GetStart(t) \/ GetRequested(t) \/ PostStart(t) \/ PostRequested(t)
        \/ LoginStart(t) \/ LoginPosted(t)
        \/ SvStart(t) \/ SvPosted(t)
    \/ Tick
SpecHeaders == InitHeaders /\ [][NextHeaders]_vars

\* the HTTP requests sent to the target of the call
TargetHttp ==
    {k \in Events("http") : log[k].service = call.service /\ log[k].path = call.path}
\* a login began while the headers of the call were built: before any HTTP
\* request went to the target
LoginForHeaders ==
    \E j \in Events("login_start") : \A k \in TargetHttp : j < k
\* the call asks for the access token to be attached
AuthEnabled == ResolveUseAuthToken(call.use_auth_token)
\* C21: the headers sent to the target are exactly the caller's explicit
\* header map whenever one is supplied, the empty map included, and then no
\* Authorization header is synthesized and no login is triggered. An
\* Authorization header is synthesized if and only if no explicit map is
\* supplied and auth is enabled; a login is triggered if and only if, in
\* addition, the client held no access token when the call began.
C21_ExplicitHeadersVerbatim ==
    (IsRequestCall /\ TargetHttp # {}) =>
        /\ call.headers # None =>
              \A k \in TargetHttp : log[k].headers = call.headers[1]
        /\ \A k \in TargetHttp :
              ("Authorization" \in DOMAIN log[k].headers)
                 <=> (call.headers = None /\ AuthEnabled)
        /\ LoginForHeaders
              <=> (call.headers = None /\ AuthEnabled /\ log[1].access_token = NULL)

\* ---------------------------------------------------------------------- C22
\* the verify endpoint answered and the verify request returned its Response
VerifyAnswered ==
    \E k \in Events("req_end") :
        /\ log[k].path \in {<<"verify">>, <<"verify-user">>}
        /\ log[k].res = "Response"
\* C22: service_verify and client_verify never raise because a token could
\* not be verified: whatever the verify endpoint answers (is_verify false, no
\* payload, a 4xx or 5xx error response), they return the payload or the
\* invalid sentinel.
C22_VerifyNeverRaises ==
    (IsVerifyCall /\ VerifyAnswered /\ AllDone) => outcome[1].k = "return"

\* ---------------------------------------------------------------------- C23
ErrorCode_CLIENT_JWT_INVALID == [type |-> "ErrorCode", v |-> "client has an invalid jwt"]
\* ErrorSchema(error=code): Config.use_enum_values stores the member's value
ErrorSchema(error) == [error |-> error.v, extra |-> None]
\* the call-site wrappers of depends.py
DepFrame(proc, access_token_arg) ==
    [Frame0 EXCEPT !.proc = proc, !.token = access_token_arg]
\* token is False, for the value a verification returned
\* a wrapper that takes every result of the verification for a payload
IsFalse_Never(token) == FALSE
IsFalse(token) == token = Invalid
\* if token is False: raise InvalidJWT(ErrorSchema(error=code)); return token
DepResult(proc, token, code, rest) ==
    IF IsFalse(token)
    THEN ERaise(proc, "InvalidJWT",
                <<[e |-> "verified", got |-> token],
                  [e |-> "error_schema", schema |-> ErrorSchema(code)]>>)
    ELSE EReturn(token, rest, <<[e |-> "verified", got |-> token]>>)

\* token = await self_service.service_verify(service_access_token=str(access_token))
ServiceDepStart(t) ==
    /\ At(t, "verify_service_token_dep", "start")
    /\ Apply(t, ECall(ServiceVerifyFrame(Top(t).token, None),
                      [Top(t) EXCEPT !.pc = "verified"], Rest(t), <<>>))
    /\ UNCHANGED <<access_token, refresh_token, self_headers, backend, cache, now, call, calls>>
ServiceDepVerified(t) ==
    /\ At(t, "verify_service_token_dep", "verified")
    /\ Apply(t, DepResult("verify_service_token_dep", Top(t).ret, ErrorCode_JWT_INVALID,
                          Rest(t)))
    /\ UNCHANGED <<access_token, refresh_token, self_headers, backend, cache, now, call, calls>>
\* token = await self_service.client_verify(client_access_token=str(access_token))
ClientDepStart(t) ==
    /\ At(t, "verify_client_token_dep", "start")
    /\ Apply(t, ECall(ClientVerifyFrame(Top(t).token),
                      [Top(t) EXCEPT !.pc = "verified"], Rest(t), <<>>))
    /\ UNCHANGED <<access_token, refresh_token, self_headers, backend, cache, now, call, calls>>
ClientDepVerified(t) ==
    /\ At(t, "verify_client_token_dep", "verified")
    /\ Apply(t, DepResult("verify_client_token_dep", Top(t).ret,
                          ErrorCode_CLIENT_JWT_INVALID, Rest(t)))
    /\ UNCHANGED <<access_token, refresh_token, self_headers, backend, cache, now, call, calls>>

\* ---- the wrappers on their own
CallServiceDep(t) ==
    \E tok \in VerifyTokens : StartCall(t, DepFrame("verify_service_token_dep", tok))
CallClientDep(t) ==
    \E tok \in ClientTokens : StartCall(t, DepFrame("verify_client_token_dep", tok))
NextDep ==
    \/ \E t \in TaskIds :
        \/ CallServiceDep(t) \/ CallClientDep(t)
        \/ ServiceDepStart(t) \/ ServiceDepVerified(t)
        \/ ClientDepStart(t) \/ ClientDepVerified(t)
        \/ ReqStart(t) \/ ReqAuthHeader(t) \/ ReqConnectFail(t) \/ ReqResponse(t)
        \/ ReqVerified(t)
        \/ PostStart(t) \/ PostRequested(t)
        \/ LoginStart(t) \/ LoginPosted(t)
        \/ SvStart(t) \/ SvPosted(t) \/ CvStart(t) \/ CvPosted(t)
    \/ Tick
SpecDep == Init /\ [][NextDep]_vars

IsDepCall == call.proc \in {"verify_service_token_dep", "verify_client_token_dep"}
\* the error code the wrapper of the call raises with
DepErrorCode ==
    IF call.proc = "verify_service_token_dep" THEN ErrorCode_JWT_INVALID
    ELSE ErrorCode_CLIENT_JWT_INVALID
\* what the underlying verification returned to the wrapper, if it returned
VerificationResults == {log[k].got : k \in Events("verified")}
\* C23: verify_service_token_dep and verify_client_token_dep return a payload
\* exactly when the underlying verification returned one, and then that
\* payload; when it returned the invalid sentinel they raise InvalidJWT
\* carrying JWT_INVALID (service) or CLIENT_JWT_INVALID (client); they never
\* return the invalid sentinel.
C23_DepRaisesOnInvalid ==
    (IsDepCall /\ AllDone) =>
        /\ outcome[1].k = "return" =>
              /\ outcome[1].v # Invalid
              /\ VerificationResults = {outcome[1].v}
        /\ \A r \in VerificationResults :
              IF r = Invalid
              THEN /\ outcome[1] = Raised(call.proc, "InvalidJWT")
                   /\ \E k \in Events("error_schema") :
                         log[k].schema = ErrorSchema(DepErrorCode)
              ELSE outcome[1] = Returned(r)
\* the client wrapper raised for a token the users service does not verify
C23_Witness ==
    /\ call.proc = "verify_client_token_dep"
    /\ AllDone
    /\ VerificationResults = {Invalid}
    /\ outcome[1] = Raised("verify_client_token_dep", "InvalidJWT")
\* the service wrapper returned the payload of a verified token
C23_WitnessPayload ==
    /\ call.proc = "verify_service_token_dep"
    /\ AllDone
    /\ outcome[1].k = "return"
    /\ outcome[1].v \in VerificationResults

\* ---------------------------------------------------------------------- C24
\* ---- two coroutines of one client on the event loop: logins, refreshes, the
\* background loop and requests interleave at their suspension points. The
\* requests go to Authentication uncached, so the clock plays no part.
RaceCalls ==
    {GetFrame(AUTHENTICATION, <<"health">>, None, NoHeaders, Some(FALSE), None, None,
              None)}
CallRaceRequest(t) == \E fr \in RaceCalls : StartCall(t, fr)
InitRace ==
    /\ access_token = NULL
    /\ refresh_token = NULL
    /\ self_headers = NoHeaders
    /\ backend = "up"
    /\ cache = {}
    /\ now = 0
    /\ stack = [t \in TaskIds |-> <<>>]
    /\ outcome = [t \in TaskIds |-> Idle]
    /\ log = <<>>
    /\ call = Frame0
    /\ calls = 0
NextRace ==
    \E t \in TaskIds :
        \/ CallLogin(t) \/ CallRefresh(t) \/ CallActivate(t) \/ CallRaceRequest(t)
        \/ LoopStart(t) \/ LoopWake(t)
        \/ ReqStart(t) \/ ReqAuthHeader(t) \/ ReqConnectFail(t) \/ ReqResponse(t)
        \/ GetStart(t) \/ GetRequested(t) \/ PostStart(t) \/ PostRequested(t)
        \/ LoginStart(t) \/ LoginPosted(t) \/ TokStart(t) \/ TokPosted(t)
SpecRace == InitRace /\ [][NextRace]_vars

\* the login or refresh exchange of task t is on the wire
InFlight(t) ==
    /\ At(t, "_request", "attempt")
    /\ Top(t).service = AUTHENTICATION
    /\ Top(t).path \in {<<"create">>, <<"update">>}
\* task t is about to process the answer of its login or refresh exchange
ExchangeAnswered(t) ==
    At(t, "get_tokens_by_login", "posted") \/ At(t, "get_tokens", "posted")
\* task t takes the step
Steps(t) == stack'[t] # stack[t]
\* task t ends with an exception in the step
Fails(t) == outcome[t].k # "raise" /\ outcome'[t].k = "raise"
\* C24: token refresh is not mutually exclusive. Two callers that both find
\* the token absent or expired each run their own login or refresh exchange,
\* and both exchanges can be in flight at once. Neither caller fails because of
\* the other: a caller fails only in its own Executor or on the error answer
\* of its own exchange. Each successful exchange, when its answer is processed,
\* overwrites both token fields with its own pair, and nothing else writes
\* them, so after both the fields hold the pair of the exchange processed
\* last.
C24_RacingExchangesLastWins ==
    [][\A t \in TaskIds :
          /\ (Steps(t) /\ ExchangeAnswered(t) /\ ~Top(t).ret.is_error) =>
                /\ access_token' = <<Top(t).ret.body.data[1]>>
                /\ refresh_token' = <<Top(t).ret.body.data[2]>>
                /\ ~Fails(t)
          /\ Fails(t) =>
                \/ Top(t).proc = "_request"
                \/ ExchangeAnswered(t) /\ Top(t).ret.is_error
          /\ (Steps(t) /\ <<access_token, refresh_token>>' # <<access_token, refresh_token>>)
                => ExchangeAnswered(t) /\ ~Top(t).ret.is_error]_vars
\* two logins in flight at once, both begun on the absent token
C24_Witness ==
    /\ InFlight(1) /\ InFlight(2)
    /\ access_token = NULL
    /\ Top(1).path = <<"create">> /\ Top(2).path = <<"create">>
\* a login and a refresh in flight at once, after an earlier exchange
C24_WitnessRefresh ==
    /\ InFlight(1) /\ InFlight(2)
    /\ access_token # NULL
    /\ Top(1).path = <<"create">> /\ Top(2).path = <<"update">>

\* ---------------------------------------------------------------------- C25
\* the exceptions the except clauses of the retry loop name (core.py 485-492)
RetryCatches == {"ConnectError", "KeyError", "UnauthorizedServiceError"}
\* an exception raised inside the try block of attempt i: caught by a clause of
\* the loop, or it leaves _request
ReqRaisedEff(fr, rest, evs, exc) ==
    IF exc \in RetryCatches THEN ReqFail(fr, rest, evs, exc)
    ELSE ERaise("_request", exc, evs)
\* client.request(..., timeout=timeout) runs out of time: httpx raises a
\* TimeoutException (ConnectTimeout, ReadTimeout, ...), which is no ConnectError
ReqTimeout(t) ==
    /\ At(t, "_request", "attempt")
    /\ Apply(t, ReqRaisedEff(Top(t), Rest(t), <<EvHttp(Top(t), "TimeoutException", 0)>>,
                             "TimeoutException"))
    /\ UNCHANGED <<access_token, refresh_token, self_headers, backend, cache, now, call, calls>>

\* ---- the retry loop with attempts that run out of time
NextTimeout ==
    \/ \E t \in TaskIds :
        \/ CallRetry(t)
        \/ ReqStart(t) \/ ReqAuthHeader(t) \/ ReqConnectFail(t) \/ ReqTimeout(t)
        \/ ReqResponse(t) \/ ReqVerified(t)
        \/ GetStart(t) \/ GetRequested(t) \/ PostStart(t) \/ PostRequested(t)
        \/ LoginStart(t) \/ LoginPosted(t)
        \/ SvStart(t) \/ SvPosted(t)
    \/ Tick
SpecTimeout == Init /\ [][NextTimeout]_vars

\* C25: an HTTP attempt that ends because the per-attempt timeout elapsed is
\* handled by the retry loop like a connect failure: the loop goes on to the
\* next attempt or to its exhaustion, and the timeout never leaves _request as
\* an exception.
C25_TimeoutIsRetried ==
    /\ \A k \in Events("http") :
          log[k].res \in {"TimeoutException", "ConnectError"} =>
              /\ k < Len(log)
              /\ log[k + 1].e = "except"
              /\ log[k + 1].i = log[k].i
    /\ \A t \in DOMAIN outcome :
          outcome[t].k = "raise" => outcome[t].exc # "TimeoutException"

\* ---------------------------------------------------------------------- C26
\* ---- requests to the Authentication service, whose answers may carry an
\* Authorization header of their own
AuthTargetCalls ==
    {GetFrame(AUTHENTICATION, p, None, NoHeaders, None, None, None, ua) :
        p \in {<<"status">>, <<"health">>}, ua \in {None, Some(FALSE)}}
CallAuthTarget(t) == \E fr \in AuthTargetCalls : StartCall(t, fr)
NextAuthTarget ==
    \/ \E t \in TaskIds :
        \/ CallAuthTarget(t)
        \/ ReqStart(t) \/ ReqAuthHeader(t) \/ ReqConnectFail(t) \/ ReqResponse(t)
        \/ GetStart(t) \/ GetRequested(t) \/ PostStart(t) \/ PostRequested(t)
        \/ LoginStart(t) \/ LoginPosted(t)
    \/ Tick
SpecAuthTarget == Init /\ [][NextAuthTarget]_vars

\* a coroutine of task t verifies a service token
Verifying(t) == \E k \in DOMAIN stack[t] : stack[t][k].proc = "service_verify"
\* C26: a request whose target is the Authentication service never triggers
\* the verification of the responder's identity, whatever the status and the
\* headers of the answer: service_verify is not entered, no verification
\* result is looked up and no verify request is made.
C26_AuthenticationIsExempt ==
    (IsRequestCall /\ call.service = AUTHENTICATION) =>
        /\ \A t \in DOMAIN stack : ~Verifying(t)
        /\ \A k \in DOMAIN log :
              /\ ~IsVerifyLookup(k)
              /\ ~IsVerifyRequest(log[k])
\* the Authentication service answered 200 with an Authorization header, and
\* the one attempt was returned as the Response
C26_Witness ==
    /\ IsRequestCall /\ call.service = AUTHENTICATION
    /\ AllDone
    /\ outcome[1].k = "return"
    /\ outcome[1].v.status_code = 200
    /\ "Authorization" \in DOMAIN outcome[1].v.headers

\* ---------------------------------------------------------------------- C27
\* the writes of the negative sentinel under a verification key
SentinelWrites ==
    {k \in Events("cache_set") : IsVerifyKey(log[k].key) /\ log[k].value = bytes_False}
\* the negative entries the cache holds
SentinelEntries == {en \in cache : IsVerifyKey(en.key) /\ en.value = bytes_False}
\* C27: every negative verification entry is written with the cache's default
\* lifetime, whatever the exp of the token: the write passes no time, and the
\* entry it leaves lives default_cache_lifetime seconds.
C27_SentinelHasDefaultTtl ==
    /\ \A k \in SentinelWrites : log[k].time = None
    /\ \A en \in SentinelEntries : en.ex = default_cache_lifetime
\* a verified token failed for its sub alone, and the sentinel written for it
\* has the default lifetime, not the token's remaining one
C27_Witness ==
    /\ call.proc = "service_verify"
    /\ call.for_service # None
    /\ AuthVerify(call.token, TokenBearer_SERVICE, now).ok
    /\ outcome[1] = Returned(Invalid)
    /\ SentinelWrites # {}
    /\ \E en \in SentinelEntries :
          en.key = VerifyKey(call.token, TokenBearer_SERVICE)

\* ---------------------------------------------------------------------- C28
\* the two token fields
TokenFields == <<access_token, refresh_token>>
\* the pairs the Authentication service hands out, as the client stores them
IssuedPairs == {<<<<p[1]>>, <<p[2]>>>> : p \in LoginPairs \cup RefreshPairs}
\* the answer task t is about to process is a success, or an error
ExchangeSucceeded(t) == ExchangeAnswered(t) /\ ~Top(t).ret.is_error
ExchangeFailed(t) == ExchangeAnswered(t) /\ Top(t).ret.is_error
\* C28: starting from absent tokens, under every interleaving of concurrent
\* get_tokens_by_login, get_tokens, iterations of the background loop and
\* requests, the token fields change only by being overwritten together with
\* the pair of one successful Authentication response. At every suspension
\* point both are absent or both come from the same response, and a failed
\* exchange changes neither.
C28_TokensWrittenAsPairs ==
    /\ [](TokenFields = <<NULL, NULL>> \/ TokenFields \in IssuedPairs)
    /\ [][\A t \in TaskIds :
             /\ (Steps(t) /\ TokenFields' # TokenFields) =>
                   /\ ExchangeSucceeded(t)
                   /\ TokenFields' = <<<<Top(t).ret.body.data[1]>>,
                                       <<Top(t).ret.body.data[2]>>>>
             /\ (Steps(t) /\ ExchangeFailed(t)) => TokenFields' = TokenFields]_vars
\* while the background loop waits for the answer of its exchange, the fields
\* hold the pair of a refresh another coroutine has completed
C28_Witness ==
    \E t \in TaskIds :
        /\ InFlight(t)
        /\ stack[t][Len(stack[t])].proc = "tokens_update_task"
        /\ TokenFields \in {<<<<p[1]>>, <<p[2]>>>> : p \in RefreshPairs}
        /\ \E u \in TaskIds \ {t} : outcome[u].k = "return"

\* ---------------------------------------------------------------------- C30
\* at the present second Authentication verifies the token of the call, and
\* its sub is the service the call names, if it names one
CallTokenGenuine ==
    LET answer == AuthVerify(call.token, TokenBearer_SERVICE, now) IN
    /\ answer.ok
    /\ call.for_service # None => answer.payload.sub = call.for_service[1]
\* C30: service_verify(t, S) returns invalid only if Authentication reports t
\* not verified or the sub of t differs from S. A verification of t that failed
\* only because another service was named does not make a later
\* service_verify(t, S), or service_verify(t), of the still-valid token return
\* invalid.
C30_InvalidOnlyForBadToken ==
    (call.proc = "service_verify" /\ AllDone /\ outcome[1] = Returned(Invalid))
        => ~CallTokenGenuine

\* ---------------------------------------------------------------------- C31
\* ---- GraphQL mutations: the requests BooksRoute.graphql.createReview,
\* updateReview and deleteReview build, each with is_graphql=True and the
\* body build_query(type='mutation', name=..., args, fields)
MutationNames == {"createReview", "updateReview", "deleteReview"}
MutationRoute(name) ==
    GraphqlFrame(<<"mutation", name, "user_id:1,book_id:1">>, TRUE, None)
MutationCalls == {MutationRoute(n) : n \in MutationNames}
CallMutation(t) == \E fr \in MutationCalls : StartCall(t, fr)
NextMutation ==
    \/ \E t \in TaskIds :
        \/ CallMutation(t)
        \/ ReqStart(t) \/ ReqAuthHeader(t) \/ ReqConnectFail(t) \/ ReqResponse(t)
        \/ ReqVerified(t)
        \/ PostStart(t) \/ PostRequested(t)
        \/ LoginStart(t) \/ LoginPosted(t)
        \/ SvStart(t) \/ SvPosted(t)
    \/ Tick
SpecMutation == Init /\ [][NextMutation]_vars

\* the call in progress, or last made, posts a mutation
IsMutationCall ==
    call.proc = "post_request" /\ call.body # <<>> /\ call.body[1] = "mutation"
\* C31: a GraphQL mutation built by the route builders and sent with
\* post_request under the default client configuration always reaches the
\* remote service: a call that returns a Response has sent its mutation over
\* HTTP, and no mutation is answered from the response cache.
C31_MutationReachesService ==
    (IsMutationCall /\ AllDone /\ outcome[1].k = "return") => OwnHttp # {}

\* ---------------------------------------------------------------------- C32
\* ---- termination of a request: every HTTP exchange and every cache
\* operation completes, so the event loop always resumes a coroutine that
\* waits for one. The remote may answer every request with the 'JWT expired'
\* status. The clock plays no part and stands still.
TermCalls ==
    {GetFrame(s, <<"health">>, None, NoHeaders, None, None, None, ua) :
        s \in {AUTHENTICATION, BOOKS}, ua \in {None, Some(FALSE)}}
    \cup {GraphqlFrame(<<"books(ids:1)">>, TRUE, None)}
CallTerm(t) == \E fr \in TermCalls : StartCall(t, fr)
\* a step of a coroutine of task t
StepTerm(t) ==
    \/ ReqStart(t) \/ ReqAuthHeader(t) \/ ReqConnectFail(t) \/ ReqResponse(t)
    \/ ReqVerified(t)
    \/ GetStart(t) \/ GetRequested(t) \/ PostStart(t) \/ PostRequested(t)
    \/ LoginStart(t) \/ LoginPosted(t) \/ TokStart(t) \/ TokPosted(t)
    \/ SvStart(t) \/ SvPosted(t)
NextTerm == \E t \in TaskIds : CallTerm(t) \/ CallRefresh(t) \/ StepTerm(t)
SpecTerm == Init /\ [][NextTerm]_vars /\ WF_vars(StepTerm(1))

\* the HTTP requests one call can make: the attempts of a login, and for each
\* attempt at the target the attempts of one verify request
HttpBudget ==
    default_max_reconnections
    + ResolveMaxReconnections(call.max_reconnections) * (1 + default_max_reconnections)
\* the frames of _request on the stack of task t
RequestDepth(t) == Cardinality({k \in DOMAIN stack[t] : stack[t][k].proc = "_request"})
\* every request made on behalf of a verification goes to Authentication;
\* stack[t][1] is the innermost frame
NestedGoToAuthentication(t) ==
    \A k \in DOMAIN stack[t] :
        stack[t][k].proc = "service_verify" =>
            \A j \in 1..(k - 1) :
                stack[t][j].proc \in {"post_request", "_request"}
                    => stack[t][j].service = AUTHENTICATION
\* C32: every call to get_request or post_request eventually returns a
\* Response or raises, after finitely many HTTP requests, also against a
\* remote that answers every request with the 'JWT expired' status. Nested
\* verification requests go only to Authentication, whose responses are not
\* verified, so the nesting of _request is bounded: the target, the verify
\* request, the login.
C32_EveryRequestEnds ==
    /\ [](IsRequestCall =>
            /\ Cardinality(Events("http")) <= HttpBudget
            /\ RequestDepth(1) <= 3
            /\ NestedGoToAuthentication(1))
    /\ (IsRequestCall /\ outcome[1] = Pending)
          ~> (outcome[1].k \in {"return", "raise"})
\* the remote answered the request with the 'JWT expired' status, and the
\* call has ended with that answer
C32_Witness ==
    /\ IsRequestCall /\ call.service = BOOKS
    /\ AllDone
    /\ outcome[1].k = "return"
    /\ outcome[1].v.status_code = 401
    /\ outcome[1].v.body.data = <<ErrorCode_JWT_EXPIRED.v>>

\* ---------------------------------------------------------------------- C33
\* ---- header formatting and token extraction on their own: a responder
\* formats its token into the Authorization header, the client extracts it
HeaderTokens == {<<"tB">>, <<"tU">>, <<"tB", "Bearer">>}
HeaderFormats == {default_header_auth_format, <<"Token", " ", "{}">>, <<"{}">>}
\* header_auth_format.format(token)
FormatHeader ==
    /\ Len(log) < MaxOps
    /\ \E token \in HeaderTokens, f \in HeaderFormats :
          log' = log \o <<[e |-> "header", token |-> token, header_format |-> f,
                           header |-> StrFormat(f, token)]>>
    /\ UNCHANGED <<access_token, refresh_token, self_headers, backend, cache, now,
                   stack, outcome, call, calls>>
\* extract_token_from_header(header, header_format) of the header formatted last
ExtractToken ==
    /\ Len(log) < MaxOps
    /\ log # <<>>
    /\ log[Len(log)].e = "header"
    /\ LET h == log[Len(log)] IN
       log' = log \o <<[e |-> "extracted", token |-> h.token,
                        header_format |-> h.header_format,
                        got |-> extract_token_from_header(h.header, h.header_format)]>>
    /\ UNCHANGED <<access_token, refresh_token, self_headers, backend, cache, now,
                   stack, outcome, call, calls>>
NextExtract == FormatHeader \/ ExtractToken
SpecExtract == Init /\ [][NextExtract]_vars

\* C33: token extraction inverts header formatting: for every token t and
\* header format f, the default 'Bearer {}' included,
\* extract_token_from_header(f.format(t), f) is t exactly.
C33_ExtractInvertsFormat ==
    \A k \in Events("extracted") : log[k].got = log[k].token

\* ---------------------------------------------------------------------- C34
\* ---- the same token strings verified as service tokens and as client tokens
BearerTokens == {<<"tB">>, <<"cU">>}
CallServiceBearer(t) == \E tok \in BearerTokens : StartCall(t, ServiceVerifyFrame(tok, None))
CallClientBearer(t) == \E tok \in BearerTokens : StartCall(t, ClientVerifyFrame(tok))
NextBearer ==
    \/ \E t \in TaskIds :
        \/ CallServiceBearer(t) \/ CallClientBearer(t)
        \/ ReqStart(t) \/ ReqAuthHeader(t) \/ ReqConnectFail(t) \/ ReqResponse(t)
        \/ ReqVerified(t)
        \/ PostStart(t) \/ PostRequested(t)
        \/ LoginStart(t) \/ LoginPosted(t)
        \/ SvStart(t) \/ SvPosted(t) \/ CvStart(t) \/ CvPosted(t)
    \/ Tick
SpecBearer == Init /\ [][NextBearer]_vars

\* the bearer type the call verifies its token as
CallBearer ==
    IF call.proc = "service_verify" THEN TokenBearer_SERVICE ELSE TokenBearer_CLIENT
\* the token string of the call is an issued token of the bearer type
IssuedAs(bearer) ==
    /\ Len(StrStrip(call.token)) = 1
    /\ TokenAtom(call.token) \in IssuedTokens
    /\ TokenClaims(TokenAtom(call.token)).bearer = bearer
\* C34: verification results are separated by bearer type. The operation
\* looks up the key of its own bearer type; every entry under a key of one type
\* holds a result of that type; and the result of verifying a token string as
\* one type is what the verify endpoint says of it as that type, whatever
\* verifications of the same string as the other type came before: invalid
\* only for a string the endpoint does not verify as that type, a payload only
\* for a token issued as that type.
C34_BearerTypesAreSeparated ==
    /\ \A en \in cache :
          (IsVerifyKey(en.key) /\ en.value # bytes_False) =>
              BytesToPayload(en.value).bearer = en.key[Len(en.key)]
    /\ (IsVerifyCall /\ Len(log) >= 2) =>
          /\ log[2].e = "cache_get"
          /\ log[2].key = call.token \o <<CallBearer>>
    /\ (IsVerifyCall /\ AllDone /\ outcome[1].k = "return") =>
          IF outcome[1].v = Invalid
          THEN ~AuthVerify(call.token, CallBearer, now).ok
          ELSE /\ IssuedAs(CallBearer)
               /\ outcome[1].v = Valid(TokenClaims(TokenAtom(call.token)))
\* the string 'cU' was verified as a service token and found invalid; its
\* verification as a client token then returned the payload
C34_Witness ==
    /\ call = ClientVerifyFrame(<<"cU">>)
    /\ AllDone
    /\ outcome[1] = Returned(Valid(TokenClaims("cU")))
    /\ \E en \in cache :
          en.key = <<"cU", TokenBearer_SERVICE>> /\ en.value = bytes_False

\* ---------------------------------------------------------------------- C35
\* ---- GraphQL bodies with their structure. A value is a string, a list, a
\* pydantic object or a dict; an object is its class and the fields set on it
\* (model_fields_set) with their values. A field that is not set holds its
\* default: the marker EmptyField(), or the class name for typename__.
Str(s) == [k |-> "str", s |-> s]
List(items) == [k |-> "list", items |-> items]
Model(cls, set) == [k |-> "model", cls |-> cls, set |-> set]
Dict(d) == [k |-> "dict", d |-> d]
\* the one EmptyField object a class holds as the default of a field
EmptyField == [k |-> "marker"]
\* data of GraphqlResponse and books of its field class are required
PydanticUndefined == [k |-> "undefined"]
GraphQLClasses == {"Book", "Author"}
FieldDefault(cls, field) ==
    IF cls \in GraphQLClasses
    THEN IF field = "typename__" THEN Str(cls) ELSE EmptyField
    ELSE PydanticUndefined
\* value == default, as exclude_defaults compares. EmptyField defines no __eq__, so a marker equals
\* only the very same object, and a value parsed from JSON is never a marker.
EqualsDefault(value, other) ==
    /\ value.k = other.k
    /\ value.k \notin {"marker", "undefined"}
    /\ value = other
\* value != EmptyField(): the comparison is with a fresh object
DiffersFromNewEmptyField(value) == TRUE

\* body.model_dump(exclude_unset=True, exclude_defaults=True): the fields set
\* whose value differs from the default, by field name, nested objects dumped
\* to dicts in the same way
RECURSIVE model_dump(_)
RECURSIVE DumpValue(_)
model_dump(body) ==
    LET kept == {f \in DOMAIN body.set :
                    ~EqualsDefault(body.set[f], FieldDefault(body.cls, f))} IN
    [f \in kept |-> DumpValue(body.set[f])]
DumpValue(value) ==
    CASE value.k = "model" -> Dict(model_dump(value))
      [] value.k = "list" ->
            List([i \in DOMAIN value.items |-> DumpValue(value.items[i])])
      [] OTHER -> value

RECURSIVE remove_empty_fields_from_response_body(_)
remove_empty_fields_from_response_body(body) ==
    LET dumped == model_dump(body)
        CleanedItem(item) ==
            IF item.k = "model"
            THEN Dict(remove_empty_fields_from_response_body(item))
            ELSE item
        CleanedList(items) ==
            LET keptItems == SelectSeq(items, LAMBDA item :
                                item.k = "model" \/ DiffersFromNewEmptyField(item)) IN
            [i \in DOMAIN keptItems |-> CleanedItem(keptItems[i])]
        cleaned == {f \in DOMAIN dumped :
                      \/ dumped[f].k \in {"model", "list"}
                      \/ DiffersFromNewEmptyField(dumped[f])} IN
    [f \in cleaned |->
        CASE dumped[f].k = "model" ->
                Dict(remove_empty_fields_from_response_body(dumped[f]))
          [] dumped[f].k = "list" -> List(CleanedList(dumped[f].items))
          [] OTHER -> dumped[f]]

\* response.model_dump(): the body as it is when it is a dict
ResponseDump(response) ==
    [status_code |-> response.status_code, headers |-> response.headers,
     is_error |-> response.is_error, body |-> DumpValue(response.body)]

\* ---- the objects the remote can answer a books query with
\* the objects of a class: every subset of its fields set, each to one of the
\* values the field can take
Objects(cls, vals) ==
    UNION {{Model(cls, g) :
              g \in {h \in [D -> UNION {vals[f] : f \in D}] :
                        \A f \in D : h[f] \in vals[f]}} :
           D \in SUBSET DOMAIN vals}
AuthorObjects ==
    Objects("Author", [name |-> {Str("n")}, typename__ |-> {Str("Author")}])
BookObjects ==
    Objects("Book", [title |-> {Str("x")}, typename__ |-> {Str("Book")},
                     authors |-> {List(<<>>)}
                                 \cup {List(<<a>>) : a \in AuthorObjects}])
GraphqlBody(books) ==
    Model("GraphqlResponse", [data |-> Model("books", [books |-> List(books)])])
ExecutorResponses ==
    {[status_code |-> 200, headers |-> NoHeaders, is_error |-> FALSE,
      body |-> GraphqlBody(books)] :
        books \in {<<>>} \cup {<<b>> : b \in BookObjects}}
    \cup {[status_code |-> 200, headers |-> NoHeaders, is_error |-> FALSE,
           body |-> Dict([data |-> Str("x")])],
          [status_code |-> 400, headers |-> NoHeaders, is_error |-> TRUE,
           body |-> Model("ErrorBodyResponse_4xx", [detail |-> Str("x")])]}

\* _request returns the Executor's response to post_request after a miss
ExecutorResponds ==
    /\ Len(log) < MaxOps
    /\ \E response \in ExecutorResponses :
          log' = log \o <<[e |-> "response", response |-> response]>>
    /\ UNCHANGED <<access_token, refresh_token, self_headers, backend, cache, now,
                   stack, outcome, call, calls>>
\* post_request from the response on, use_cache on: the body of a deep copy is
\* replaced by the cleaned dict, the copy's dump is stored, the response itself
\* is returned
PostRequestStores ==
    /\ Len(log) < MaxOps
    /\ log # <<>>
    /\ log[Len(log)].e = "response"
    /\ LET response == log[Len(log)].response
           response_copy ==
               IF response.body.k # "dict"
               THEN [response EXCEPT
                       !.body = Dict(remove_empty_fields_from_response_body(
                                        response.body))]
               ELSE response IN
       log' = log \o <<[e |-> "post_request", response |-> response,
                        stored |-> IF ShouldStore(TRUE, response)
                                   THEN Some(ResponseDump(response_copy))
                                   ELSE None,
                        returned |-> response]>>
    /\ UNCHANGED <<access_token, refresh_token, self_headers, backend, cache, now,
                   stack, outcome, call, calls>>
NextCompact == ExecutorResponds \/ PostRequestStores
SpecCompact == Init /\ [][NextCompact]_vars

\* the compaction the statement describes: at every depth exactly the fields
\* that are set and do not hold the marker
RECURSIVE SetFields(_)
RECURSIVE SetFieldsValue(_)
SetFields(body) ==
    [f \in {g \in DOMAIN body.set : body.set[g].k # "marker"} |->
        SetFieldsValue(body.set[f])]
SetFieldsValue(value) ==
    CASE value.k = "model" -> Dict(SetFields(value))
      [] value.k = "list" ->
            List([i \in DOMAIN value.items |-> SetFieldsValue(value.items[i])])
      [] OTHER -> value
\* C35: on a GraphQL cache miss the body post_request stores is the recursive
\* compaction of the response body, which at every nesting depth, through
\* nested objects and lists, keeps exactly the fields explicitly set and drops
\* the unset ones; the Response returned is the Executor's response unchanged.
C35_StoredBodyIsCompaction ==
    \A k \in Events("post_request") :
        /\ log[k].returned = log[k].response
        /\ (log[k].stored # None /\ log[k].response.body.k = "model")
              => log[k].stored[1].body = Dict(SetFields(log[k].response.body))
====
